---------------------------- MODULE Spec2Model ----------------------------
(***************************************************************************)
(* A model of the car simulator's physics core: PhysicsEngine (fixed-step  *)
(* accumulator), Vehicle (per-tick orchestration of four corners),         *)
(* RigidBody, Suspension, PacejkaTire, Engine and Transmission.            *)
(*                                                                         *)
(* Numbers.  The program computes in IEEE doubles; the model computes in   *)
(* exact integer fixed point, every quantity in a fixed unit:              *)
(*   time                 1/(TimeRes * SIMULATION_RATE) s                  *)
(*   body position        0.01 mm                                          *)
(*   other lengths        mm                                               *)
(*   velocity             0.1 mm/s                                         *)
(*   direction vectors    1/1000                                           *)
(*   quaternions          1/10000                                          *)
(*   angles               mrad;  angular velocity mrad/s                   *)
(*   force                N;     torque about the body  N mm               *)
(*   engine speed         rpm;   engine torque  0.01 N m                   *)
(*   wheel speed          mrad/s                                           *)
(*   control inputs       1/1000 of full scale                             *)
(* Products are rescaled with Quot (rounding toward zero).  Math.sin,      *)
(* Math.atan and Math.sqrt are computed by the fixed-point operators Sin,  *)
(* Atan and Isqrt.                                                         *)
(***************************************************************************)
EXTENDS Integers, Sequences, FiniteSets, TLC

(***************************************************************************)
(* Scales of the fixed-point representation.                               *)
(***************************************************************************)
TimeRes  == 4              \* time units per fixed step
LenU     == 1000       \* length units per m
PosU     == 100 * LenU     \* body position units per m
VelU     == 10 * LenU      \* velocity units per m/s
DirU     == 1000       \* unit-vector scale
QuatU    == 10 * DirU      \* quaternion scale
AngU     == 1000       \* angle units per rad
InU      == 1000       \* control input full scale
TqU      == 100        \* engine torque units per N m
Pi       == 3142            \* Math.PI in angle units

Abs(a) == IF a < 0 THEN -a ELSE a
Sign(a) == IF a > 0 THEN 1 ELSE IF a < 0 THEN -1 ELSE 0
Max(a, b) == IF a >= b THEN a ELSE b
Min(a, b) == IF a <= b THEN a ELSE b

\* a / b rounded toward zero (b # 0)
Quot(a, b) ==
    LET q == Abs(a) \div Abs(b)
    IN  IF Sign(a) * Sign(b) < 0 THEN -q ELSE q

\* a * b / c without overflowing 32 bits when a * b would (c > 0)
MulDiv(a, b, c) ==
    LET qa == Quot(a, c)
        ra == a - qa * c
    IN  qa * b + Quot(ra * b, c)

RECURSIVE IsqrtIter(_, _, _)
IsqrtIter(n, lo, hi) ==
    IF lo >= hi THEN lo
    ELSE LET mid == (lo + hi + 1) \div 2
         IN  IF mid * mid <= n THEN IsqrtIter(n, mid, hi)
             ELSE IsqrtIter(n, lo, mid - 1)

\* floor(sqrt(n)) for 0 <= n < 2^31
Isqrt(n) == IF n <= 0 THEN 0 ELSE IsqrtIter(n, 0, 46340)

\* Math.sin on angle units, result in DirU; |a| <= Pi
SinCore(a) ==
    \* Taylor series on [-Pi/2, Pi/2]: a - a^3/6 + a^5/120 - a^7/5040
    LET a2 == Quot(a * a, AngU)
        a3 == Quot(a2 * a, AngU)
        a5 == Quot(Quot(a3 * a2, AngU), 1)
        a7 == Quot(a5 * a2, AngU)
    IN  Quot((a - Quot(a3, 6) + Quot(a5, 120) - Quot(a7, 5040)) * DirU, AngU)

Sin(a) ==
    IF a > Pi \div 2 THEN SinCore(Pi - a)
    ELSE IF a < -(Pi \div 2) THEN SinCore(-Pi - a)
    ELSE SinCore(a)

Cos(a) == Sin(Pi \div 2 - Abs(a))

\* Math.atan of x (x in 1/1000), result in angle units
AtanCore(x) ==
    \* |x| <= 1000:  x * (pi/4 + 0.273 * (1 - |x|))
    Quot(x * (Pi \div 4 + Quot(273 * (1000 - Abs(x)), 1000)), 1000)

Atan(x) ==
    IF Abs(x) <= 1000 THEN AtanCore(x)
    ELSE Sign(x) * (Pi \div 2) - AtanCore(Quot(1000 * 1000, x))

\* Math.atan2(y, x) for x > 0, result in angle units, strictly inside
\* (-Pi/2, Pi/2) as the quotient y/x is finite
Atan2Pos(y, x) ==
    IF Abs(y) <= x THEN AtanCore(MulDiv(y, 1000, x))
    ELSE Sign(y) * (Pi \div 2) - AtanCore(MulDiv(x, 1000, Abs(y)) * Sign(y))


(***************************************************************************)
(* Vector3Utils / QuaternionUtils (utils/coordinates.ts).                  *)
(***************************************************************************)
Vec(a, b, c) == [x |-> a, y |-> b, z |-> c]
Quat(a, b, c, d) == [x |-> a, y |-> b, z |-> c, w |-> d]
V3Zero == Vec(0, 0, 0)

V3Add(a, b) == Vec(a.x + b.x, a.y + b.y, a.z + b.z)
V3Sub(a, b) == Vec(a.x - b.x, a.y - b.y, a.z - b.z)

\* scale(v, s) for the scalar s = num / den
V3Scale(v, num, den) == Vec(Quot(v.x * num, den), Quot(v.y * num, den), Quot(v.z * num, den))

V3Dot(a, b) == a.x * b.x + a.y * b.y + a.z * b.z

V3Cross(a, b) ==
    Vec(a.y * b.z - a.z * b.y,
        a.z * b.x - a.x * b.z,
        a.x * b.y - a.y * b.x)

\* magnitude(v), in v's unit; components are pre-divided by pre to keep the
\* squares inside 32 bits
V3Magnitude(v, pre) ==
    LET a == Quot(v.x, pre)
        b == Quot(v.y, pre)
        c == Quot(v.z, pre)
    IN  Isqrt(a * a + b * b + c * c) * pre

\* the division of normalize(v) by the magnitude l: zero for l = 0
V3Divide(v, l) ==
    IF l = 0 THEN V3Zero
    ELSE Vec(MulDiv(v.x, DirU, l), MulDiv(v.y, DirU, l), MulDiv(v.z, DirU, l))

\* normalize(v): a direction vector (DirU), zero for the zero vector
V3Normalize(v, pre) == V3Divide(v, V3Magnitude(v, pre))

\* rotate(v, q): v' = q * v * q_conjugate, in v's unit (|v| <= 20000);
\* the intermediate quaternion i keeps one more decimal digit than v
V3Rotate(v, q) ==
    LET ix == Quot(q.w * v.x + q.y * v.z - q.z * v.y, QuatU \div 10)
        iy == Quot(q.w * v.y + q.z * v.x - q.x * v.z, QuatU \div 10)
        iz == Quot(q.w * v.z + q.x * v.y - q.y * v.x, QuatU \div 10)
        iw == Quot(-(q.x * v.x) - q.y * v.y - q.z * v.z, QuatU \div 10)
    IN  Vec(Quot(ix * q.w - iw * q.x - iy * q.z + iz * q.y, QuatU * 10),
            Quot(iy * q.w - iw * q.y - iz * q.x + ix * q.z, QuatU * 10),
            Quot(iz * q.w - iw * q.z - ix * q.y + iy * q.x, QuatU * 10))

QIdentity == Quat(0, 0, 0, QuatU)

\* multiply(a, b): Hamilton product of two quaternions
QMultiply(a, b) ==
    Quat(Quot(a.w * b.x + a.x * b.w + a.y * b.z - a.z * b.y, QuatU),
         Quot(a.w * b.y - a.x * b.z + a.y * b.w + a.z * b.x, QuatU),
         Quot(a.w * b.z + a.x * b.y - a.y * b.x + a.z * b.w, QuatU),
         Quot(a.w * b.w - a.x * b.x - a.y * b.y - a.z * b.z, QuatU))

\* the division of normalize(q) by the length l: identity for l = 0
QDivide(q, l) ==
    IF l = 0 THEN QIdentity
    ELSE Quat(Quot(q.x * QuatU, l), Quot(q.y * QuatU, l),
              Quot(q.z * QuatU, l), Quot(q.w * QuatU, l))

\* normalize(q): identity for the zero quaternion
QNormalize(q) == QDivide(q, Isqrt(q.x * q.x + q.y * q.y + q.z * q.z + q.w * q.w))

\* integrate(q, w, dt): q + 0.5 * w * q * dt, normalized; w in mrad/s, dt in
\* time units of 1/tps s
QIntegrate(q, w, dt, tps) ==
    LET den == 2 * tps * (AngU \div 10)
    IN  QNormalize(Quat(
            q.x + Quot(Quot(w.x * q.w + w.y * q.z - w.z * q.y, 10) * dt, den),
            q.y + Quot(Quot(w.y * q.w + w.z * q.x - w.x * q.z, 10) * dt, den),
            q.z + Quot(Quot(w.z * q.w + w.x * q.y - w.y * q.x, 10) * dt, den),
            q.w + Quot(Quot(-(w.x * q.x) - w.y * q.y - w.z * q.z, 10) * dt, den)))

(***************************************************************************)
(* Program constants.                                                      *)
(***************************************************************************)
SIMULATION_RATE == 60

\* time units per second, and FIXED_TIMESTEP = 1.0 / SIMULATION_RATE in them
TimeUnit == TimeRes * SIMULATION_RATE
FIXED_TIMESTEP == TimeUnit \div SIMULATION_RATE

\* The module-level objects: GRAVITY = { x: 0, y: 0, z: -9.81 }, in mm/s^2
InitialGlobals == [GRAVITY |-> Vec(0, 0, -9810)]

(***************************************************************************)
(* RigidBody (core/RigidBody.ts).  inverseMass and inverseInertia are the  *)
(* rationals num/den.                                                      *)
(***************************************************************************)
Rational(n, d) == [num |-> n, den |-> d]

\* A variant of the constructor that inverts every non-zero mass property
NewRigidBodyUnguarded(mass, inertia) ==
    [ mass            |-> mass,
      inverseMass     |-> IF mass # 0 THEN Rational(1, mass) ELSE Rational(0, 1),
      inertia         |-> inertia,
      inverseInertia  |->
          [ x |-> IF inertia.x # 0 THEN Rational(1, inertia.x) ELSE Rational(0, 1),
            y |-> IF inertia.y # 0 THEN Rational(1, inertia.y) ELSE Rational(0, 1),
            z |-> IF inertia.z # 0 THEN Rational(1, inertia.z) ELSE Rational(0, 1) ],
      position        |-> V3Zero,
      velocity        |-> V3Zero,
      orientation     |-> QIdentity,
      angularVelocity |-> V3Zero,
      forceAccum      |-> V3Zero,
      torqueAccum     |-> V3Zero ]

\* new RigidBody(mass, inertia); mass in kg, inertia in kg m^2
NewRigidBody(mass, inertia) ==
    [ mass            |-> mass,
      inverseMass     |-> IF mass > 0 THEN Rational(1, mass) ELSE Rational(0, 1),
      inertia         |-> inertia,
      inverseInertia  |->
          [ x |-> IF inertia.x > 0 THEN Rational(1, inertia.x) ELSE Rational(0, 1),
            y |-> IF inertia.y > 0 THEN Rational(1, inertia.y) ELSE Rational(0, 1),
            z |-> IF inertia.z > 0 THEN Rational(1, inertia.z) ELSE Rational(0, 1) ],
      position        |-> V3Zero,
      velocity        |-> V3Zero,
      orientation     |-> QIdentity,
      angularVelocity |-> V3Zero,
      forceAccum      |-> V3Zero,
      torqueAccum     |-> V3Zero ]

\* addForce(force): force in N
AddForce(b, force) == [b EXCEPT !.forceAccum = V3Add(b.forceAccum, force)]

\* addForceAtPoint(force, point): point in body-position units
AddForceAtPoint(b, force, point) ==
    LET r      == V3Scale(V3Sub(point, b.position), LenU, PosU)
        torque == V3Cross(r, force)
    IN  [b EXCEPT !.forceAccum = V3Add(b.forceAccum, force),
                  !.torqueAccum = V3Add(b.torqueAccum, torque)]

\* addTorque(torque): torque in N mm
AddTorque(b, torque) == [b EXCEPT !.torqueAccum = V3Add(b.torqueAccum, torque)]

\* A variant of integrate that leaves the accumulators as they are
IntegrateKeepAccum(b, dt) ==
    LET \* a = F / m, in mm/s^2
        acceleration == V3Scale(b.forceAccum, b.inverseMass.num * LenU, b.inverseMass.den)
        \* v = v + a * dt
        velocity     == V3Add(b.velocity,
                              V3Scale(acceleration, dt * (VelU \div LenU), TimeUnit))
        \* x = x + v * dt
        position     == V3Add(b.position,
                              V3Scale(velocity, dt * (PosU \div VelU), TimeUnit))
        \* alpha = I^-1 * T per axis, in mrad/s^2 (torque in N mm)
        angularAccel ==
            Vec(Quot(b.torqueAccum.x * b.inverseInertia.x.num, b.inverseInertia.x.den),
                Quot(b.torqueAccum.y * b.inverseInertia.y.num, b.inverseInertia.y.den),
                Quot(b.torqueAccum.z * b.inverseInertia.z.num, b.inverseInertia.z.den))
        angVel       == V3Add(b.angularVelocity, V3Scale(angularAccel, dt, TimeUnit))
        orientation  == QIntegrate(b.orientation, angVel, dt, TimeUnit)
    IN  [b EXCEPT !.velocity        = V3Scale(velocity, 1, 1),
                  !.position        = position,
                  !.angularVelocity = V3Scale(angVel, 999, 1000),
                  !.orientation     = orientation]

\* A variant of integrate that moves the position by the velocity before
\* the call (explicit Euler)
IntegrateExplicit(b, dt) ==
    LET \* a = F / m, in mm/s^2
        acceleration == V3Scale(b.forceAccum, b.inverseMass.num * LenU, b.inverseMass.den)
        \* v = v + a * dt
        velocity     == V3Add(b.velocity,
                              V3Scale(acceleration, dt * (VelU \div LenU), TimeUnit))
        \* x = x + v * dt
        position     == V3Add(b.position,
                              V3Scale(b.velocity, dt * (PosU \div VelU), TimeUnit))
        \* alpha = I^-1 * T per axis, in mrad/s^2 (torque in N mm)
        angularAccel ==
            Vec(Quot(b.torqueAccum.x * b.inverseInertia.x.num, b.inverseInertia.x.den),
                Quot(b.torqueAccum.y * b.inverseInertia.y.num, b.inverseInertia.y.den),
                Quot(b.torqueAccum.z * b.inverseInertia.z.num, b.inverseInertia.z.den))
        angVel       == V3Add(b.angularVelocity, V3Scale(angularAccel, dt, TimeUnit))
        orientation  == QIntegrate(b.orientation, angVel, dt, TimeUnit)
    IN  [b EXCEPT !.velocity        = V3Scale(velocity, 1, 1),
                  !.position        = position,
                  !.angularVelocity = V3Scale(angVel, 999, 1000),
                  !.orientation     = orientation,
                  !.forceAccum      = V3Zero,
                  !.torqueAccum     = V3Zero]

\* integrate(dt): semi-implicit Euler; dt in time units
Integrate(b, dt) ==
    LET \* a = F / m, in mm/s^2
        acceleration == V3Scale(b.forceAccum, b.inverseMass.num * LenU, b.inverseMass.den)
        \* v = v + a * dt
        velocity     == V3Add(b.velocity,
                              V3Scale(acceleration, dt * (VelU \div LenU), TimeUnit))
        \* x = x + v * dt
        position     == V3Add(b.position,
                              V3Scale(velocity, dt * (PosU \div VelU), TimeUnit))
        \* alpha = I^-1 * T per axis, in mrad/s^2 (torque in N mm)
        angularAccel ==
            Vec(Quot(b.torqueAccum.x * b.inverseInertia.x.num, b.inverseInertia.x.den),
                Quot(b.torqueAccum.y * b.inverseInertia.y.num, b.inverseInertia.y.den),
                Quot(b.torqueAccum.z * b.inverseInertia.z.num, b.inverseInertia.z.den))
        angVel       == V3Add(b.angularVelocity, V3Scale(angularAccel, dt, TimeUnit))
        orientation  == QIntegrate(b.orientation, angVel, dt, TimeUnit)
    IN  [b EXCEPT !.velocity        = V3Scale(velocity, 1, 1),
                  !.position        = position,
                  !.angularVelocity = V3Scale(angVel, 999, 1000),
                  !.orientation     = orientation,
                  !.forceAccum      = V3Zero,
                  !.torqueAccum     = V3Zero]

\* getState(): the base state, every vector a fresh copy
RigidBodyGetState(b) ==
    [ timestamp       |-> 0,
      position        |-> b.position,
      velocity        |-> b.velocity,
      orientation     |-> b.orientation,
      angularVelocity |-> b.angularVelocity,
      wheelSpeeds     |-> <<0, 0, 0, 0>>,
      engineRPM       |-> 0,
      gear            |-> 0,
      engineTorque    |-> 0 ]

(***************************************************************************)
(* Suspension (utils/coordinates.ts).  compression in body-position units. *)
(***************************************************************************)
NewSuspension(config) ==
    [ stiffness       |-> config.stiffness,
      damping         |-> config.damping,
      restLength      |-> config.restLength,
      compression     |-> 0,
      prevCompression |-> 0 ]

\* The class of a double that came out of a division by zero and a product:
\* x / 0 is Infinity or -Infinity by the sign of x and NaN for x = 0, and
\* the product with a factor keeps that, by the signs (NaN for a zero factor)
DividedByZero(x, factor) ==
    IF Sign(x) * Sign(factor) > 0 THEN "+Infinity"
    ELSE IF Sign(x) * Sign(factor) < 0 THEN "-Infinity"
    ELSE "NaN"

\* A variant of update that takes the damping force as 0 when dt is 0
SuspensionUpdateGuarded(s, compressionDepth, dt) ==
    LET s1 == [s EXCEPT !.prevCompression = s.compression,
                        !.compression = compressionDepth]
        springForce  == Quot(Quot(s1.compression, 10) * s1.stiffness, PosU \div 10)
        velocity     == Quot((s1.compression - s1.prevCompression) * TimeUnit, dt)
    IN  [ susp  |-> s1,
          class |-> "finite",
          force |-> IF s1.compression <= 0 THEN 0
                    ELSE IF dt = 0 THEN springForce
                    ELSE springForce + Quot(Quot(velocity, 10) * s1.damping, PosU \div 10) ]

\* update(compressionDepth, dt): the suspension after the call and the
\* returned number: its class, and for a finite number the force in N.
\* With dt = 0 and compression > 0 the finite difference divides by zero
SuspensionUpdate(s, compressionDepth, dt) ==
    LET s1 == [s EXCEPT !.prevCompression = s.compression,
                        !.compression = compressionDepth]
        \* F = k * x
        springForce  == Quot(Quot(s1.compression, 10) * s1.stiffness, PosU \div 10)
        \* finite difference (current - prev) / dt, in body-position units / s
        velocity     == Quot((s1.compression - s1.prevCompression) * TimeUnit, dt)
        dampingForce == Quot(Quot(velocity, 10) * s1.damping, PosU \div 10)
    IN  [ susp  |-> s1,
          class |-> IF s1.compression <= 0 \/ dt # 0 THEN "finite"
                    ELSE DividedByZero(s1.compression - s1.prevCompression, s1.damping),
          \* 0 stands in for a number that is not finite
          force |-> IF s1.compression <= 0 \/ dt = 0 THEN 0
                    ELSE springForce + dampingForce ]

(***************************************************************************)
(* PacejkaTire (models/Vehicle.ts).  Coefficients in 1/100.                *)
(***************************************************************************)
PacejkaCoeff ==
    [ latB |-> 1000, latC |-> 130, latD |-> 100, latE |-> 97,
      longB |-> 1000, longC |-> 165, longD |-> 110, longE |-> 97 ]

\* magicFormula(x, B, C, D, E) = D * sin(C * atan(B*x - E*(B*x - atan(B*x))));
\* x in 1/1000, result in DirU
MagicFormula(x, B, C, D, E) ==
    LET Bx    == Quot(B * x, 100)
        inner == Bx - Quot(E * (Bx - Atan(Bx)), 100)
    IN  Quot(D * Sin(Quot(C * Atan(inner), 100)), 100)

\* calculate(fz, slipAngle, slipRatio): fz in N, slipAngle in mrad,
\* slipRatio in 1/1000; fx, fy in N, mz in N mm
PacejkaForces(fz, slipAngle, slipRatio) ==
    LET c       == PacejkaCoeff
        Fy_norm == MagicFormula(slipAngle, c.latB, c.latC, c.latD, c.latE)
        Fy      == -Quot(Fy_norm * fz, DirU)
        Fx_norm == MagicFormula(slipRatio, c.longB, c.longC, c.longD, c.longE)
        Fx      == Quot(Fx_norm * fz, DirU)
        trail   == 20
        Mz      == Fy * trail
    IN  [fx |-> Fx, fy |-> Fy, mz |-> Mz]

\* A variant of calculate without the valid-load check
PacejkaCalculateUnchecked(fz, slipAngle, slipRatio) ==
    PacejkaForces(fz, slipAngle, slipRatio)

\* the valid-load check, then the forces
PacejkaCalculate(fz, slipAngle, slipRatio) ==
    IF fz <= 0 THEN [fx |-> 0, fy |-> 0, mz |-> 0]
    ELSE PacejkaForces(fz, slipAngle, slipRatio)

(***************************************************************************)
(* Engine and Transmission (models/Drivetrain.ts).                         *)
(***************************************************************************)
\* new Engine(config): inertia in 0.001 kg m^2, torques in N m, speeds in rpm
NewEngine(config) ==
    [ rpm        |-> config.idleRPM,
      maxRPM     |-> config.maxRPM,
      idleRPM    |-> config.idleRPM,
      inertia    |-> config.inertia,
      peakTorque |-> config.peakTorque,
      peakRPM    |-> config.peakRPM ]

\* A variant of getTorqueCurve without the cut-off above maxRPM
GetTorqueCurveNoCutoff(e, rpm) ==
    IF rpm < 0 THEN 0
    ELSE LET d      == rpm - e.peakRPM
             torque == e.peakTorque * TqU - MulDiv(d * d, 15 * TqU, 1000000)
         IN  Max(50 * TqU, torque)

\* getTorqueCurve(rpm), in engine torque units; k = 0.000015
GetTorqueCurve(e, rpm) ==
    IF rpm < 0 THEN 0
    ELSE IF rpm > e.maxRPM THEN 0
    ELSE LET d      == rpm - e.peakRPM
             torque == e.peakTorque * TqU - MulDiv(d * d, 15 * TqU, 1000000)
         IN  Max(50 * TqU, torque)

\* 60 / (2 * Math.PI) in 1/1000: rad/s to rpm
RadToRpm == 9549

\* A variant of update that floors rpm at idle and does not cap it
EngineUpdateUncapped(e, dt, throttle, loadTorque) ==
    LET combustionTorque == Quot(GetTorqueCurve(e, e.rpm) * throttle, InU)
        netTorque        == combustionTorque - Quot(e.rpm * TqU, 100) - loadTorque
        angularAccel     == Quot(netTorque * (AngU \div TqU) * 1000, e.inertia)
        rpm1             == e.rpm + Quot(Quot(angularAccel * dt, TimeUnit) * RadToRpm,
                                         1000 * AngU)
    IN  [ engine |-> [e EXCEPT !.rpm = IF rpm1 < e.idleRPM THEN e.idleRPM ELSE rpm1],
          torque |-> combustionTorque ]

\* update(dt, throttle, loadTorque): the engine after the call and the
\* returned combustion torque
EngineUpdate(e, dt, throttle, loadTorque) ==
    LET combustionTorque == Quot(GetTorqueCurve(e, e.rpm) * throttle, InU)
        frictionTorque   == Quot(e.rpm * TqU, 100)
        netTorque        == combustionTorque - frictionTorque - loadTorque
        \* netTorque / inertia, in mrad/s^2
        angularAccel     == Quot(netTorque * (AngU \div TqU) * 1000, e.inertia)
        rpm1             == e.rpm + Quot(Quot(angularAccel * dt, TimeUnit) * RadToRpm,
                                         1000 * AngU)
        rpm2             == IF rpm1 < e.idleRPM THEN e.idleRPM ELSE rpm1
        rpm3             == IF rpm2 > e.maxRPM THEN e.maxRPM ELSE rpm2
    IN  [ engine |-> [e EXCEPT !.rpm = rpm3],
          torque |-> combustionTorque ]

\* new Transmission(config): gears and finalDrive in 1/10
NewTransmission(config) ==
    [ gears       |-> config.gears,
      currentGear |-> 1,
      finalDrive  |-> config.finalDrive,
      shiftTimer  |-> 0 ]

\* getRatio(), in 1/100
GetRatio(t) ==
    IF t.currentGear = 0 THEN 0
    ELSE IF t.currentGear = -1 THEN -350
    ELSE t.gears[t.currentGear] * t.finalDrive

\* A variant of updateAutomatic that shifts without waiting for the timer
UpdateAutomaticNoCooldown(t, rpm, throttle, dt) ==
    LET t1 == [t EXCEPT !.shiftTimer = t.shiftTimer - dt]
        t2 == IF rpm > 6000 /\ t1.currentGear < 5
              THEN [t1 EXCEPT !.currentGear = t1.currentGear + 1,
                              !.shiftTimer = TimeUnit \div 2]
              ELSE t1
    IN  IF rpm < 2500 /\ t2.currentGear > 1
        THEN [t2 EXCEPT !.currentGear = t2.currentGear - 1,
                        !.shiftTimer = TimeUnit \div 2]
        ELSE t2

\* updateAutomatic(rpm, throttle, dt): shiftTimer in time units
UpdateAutomatic(t, rpm, throttle, dt) ==
    LET t1 == [t EXCEPT !.shiftTimer = t.shiftTimer - dt]
        t2 == IF rpm > 6000 /\ t1.currentGear < 5
              THEN [t1 EXCEPT !.currentGear = t1.currentGear + 1,
                              !.shiftTimer = TimeUnit \div 2]
              ELSE t1
        t3 == IF rpm < 2500 /\ t2.currentGear > 1
              THEN [t2 EXCEPT !.currentGear = t2.currentGear - 1,
                              !.shiftTimer = TimeUnit \div 2]
              ELSE t2
    IN  IF t1.shiftTimer > 0 THEN t1 ELSE t3

(***************************************************************************)
(* Environment (models/Environment.ts) and the vehicle configuration.      *)
(***************************************************************************)
\* The flat environment, and the tests' EmptySpaceEnvironment whose ground
\* is 1000 m below
Environments == {"Flat", "EmptySpace"}

\* getGroundHeight(x, y), in body-position units
GetGroundHeight(env, x, y) == IF env = "Flat" THEN 0 ELSE -1000 * PosU

\* IVehicleConfig as the classes' own defaults give it (mass as the tests
\* state it); tire offsets FL, FR, RL, RR in mm, suspension and radius in
\* body-position units, stiffness N/m, damping N s/m
VehicleConfig ==
    [ mass       |-> 1500,
      inertia    |-> Vec(1000, 1000, 1000),
      suspension |-> [stiffness |-> 25000, damping |-> 2500, restLength |-> PosU \div 2],
      tires      |-> [ radius  |-> (3 * PosU) \div 10,
                       offsets |-> << Vec(1500, 900, -200), Vec(1500, -900, -200),
                                      Vec(-1500, 900, -200), Vec(-1500, -900, -200) >> ],
      drivetrain |-> [ engine |-> [ maxRPM |-> 7000, idleRPM |-> 1000, peakTorque |-> 300,
                                    peakRPM |-> 4000, inertia |-> 200 ],
                       transmission |-> [ gears |-> <<35, 20, 14, 10, 8>>,
                                          finalDrive |-> 35 ] ] ]

(***************************************************************************)
(* Vehicle (models/Vehicle.ts).  wheelTransforms and wheelSkids are arrays *)
(* on the heap: the vehicle holds references to them, and the heap maps    *)
(* each reference to the array's present contents.                         *)
(***************************************************************************)
NewTire(offset, radius) == [offset |-> offset, radius |-> radius, wheelSpeed |-> 0]

Ref(name) == [ref |-> name]

\* A variant of the constructor that always builds four corners
NewVehicleFourCorners(config) ==
    [ body        |-> [NewRigidBody(config.mass, config.inertia)
                          EXCEPT !.position = Vec(0, 0, (6 * PosU) \div 10)],
      tires       |-> [i \in 1..4 |->
                          NewTire(IF i \in DOMAIN config.tires.offsets
                                  THEN config.tires.offsets[i] ELSE V3Zero,
                                  config.tires.radius)],
      suspensions |-> [i \in 1..4 |-> NewSuspension(config.suspension)],
      engine      |-> NewEngine(config.drivetrain.engine),
      trans       |-> NewTransmission(config.drivetrain.transmission),
      wheelTransforms |-> Ref("wheelTransforms"),
      wheelSkids      |-> Ref("wheelSkids") ]

\* new Vehicle(config): the vehicle, and the arrays it allocates
NewVehicle(config) ==
    [ body        |-> [NewRigidBody(config.mass, config.inertia)
                          EXCEPT !.position = Vec(0, 0, (6 * PosU) \div 10)],
      tires       |-> [i \in DOMAIN config.tires.offsets |->
                          NewTire(config.tires.offsets[i], config.tires.radius)],
      suspensions |-> [i \in DOMAIN config.tires.offsets |->
                          NewSuspension(config.suspension)],
      engine      |-> NewEngine(config.drivetrain.engine),
      trans       |-> NewTransmission(config.drivetrain.transmission),
      wheelTransforms |-> Ref("wheelTransforms"),
      wheelSkids      |-> Ref("wheelSkids") ]

NewVehicleHeap(config) ==
    [ wheelTransforms |-> [i \in DOMAIN config.tires.offsets |->
                              [position |-> V3Zero, orientation |-> QIdentity]],
      wheelSkids      |-> <<0, 0, 0, 0>> ]

\* Math.sqrt(a * a + b * b) for forces up to 240 kN
Hypot(a, b) ==
    IF Max(Abs(a), Abs(b)) < 30000 THEN Isqrt(a * a + b * b)
    ELSE 8 * Isqrt(Quot(a, 8) * Quot(a, 8) + Quot(b, 8) * Quot(b, 8))

\* scale(dir, len) of a direction vector by a length, overflow-safe
V3ScaleDir(dir, len) ==
    Vec(MulDiv(len, dir.x, DirU), MulDiv(len, dir.y, DirU), MulDiv(len, dir.z, DirU))

\* The engine-wheel coupling: with a gear engaged the engine turns at the
\* rear wheels' speed times the ratio, at least at idle
CoupledEngine(veh, ratio) ==
    LET avgRearWheelSpeed == Quot(veh.tires[3].wheelSpeed + veh.tires[4].wheelSpeed, 2)
        \* wheelRPM in 0.01 rpm
        wheelRPM == MulDiv(avgRearWheelSpeed, RadToRpm, 10 * AngU)
        targetEngineRPM == Max(MulDiv(wheelRPM, ratio, 100 * 100), veh.engine.idleRPM)
    IN  IF ratio # 0 THEN [veh.engine EXCEPT !.rpm = targetEngineRPM]
        ELSE veh.engine

\* what the drivetrain part leaves: trans1 after updateAutomatic, eres the
\* engine and the torque after engine.update
DrivetrainResult(ratio, engine1, trans1, eres) ==
    [ engine       |-> eres.engine,
      trans        |-> trans1,
      ratio        |-> ratio,
      coupledRPM   |-> engine1.rpm,
      engineTorque |-> eres.torque,
      wheelTorque  |-> Quot(eres.torque * ratio, 2 * 100) ]

\* A variant of the drivetrain part that reads the ratio again after the
\* automatic shift
DrivetrainShiftNewRatio(veh, dt, inputs, ratio, engine1) ==
    DrivetrainResult(GetRatio(UpdateAutomatic(veh.trans, engine1.rpm, inputs.throttle, dt)),
                     engine1,
                     UpdateAutomatic(veh.trans, engine1.rpm, inputs.throttle, dt),
                     EngineUpdate(engine1, dt, inputs.throttle, 0))

\* updateAutomatic and engine.update on the coupled engine engine1
DrivetrainShift(veh, dt, inputs, ratio, engine1) ==
    DrivetrainResult(ratio, engine1,
                     UpdateAutomatic(veh.trans, engine1.rpm, inputs.throttle, dt),
                     EngineUpdate(engine1, dt, inputs.throttle, 0))

\* The drivetrain part of update(): engine-wheel coupling, automatic shift,
\* engine.update and the per-driven-wheel torque (engine torque units)
DrivetrainUpdate(veh, dt, inputs) ==
    DrivetrainShift(veh, dt, inputs, GetRatio(veh.trans),
                    CoupledEngine(veh, GetRatio(veh.trans)))

\* A variant of the friction limit that stores the skid estimate as it is,
\* without the final clamp to [0, 1]
TireForceLimitedUnclamped(tire, wFwd, wLeft, vLong, vLat, alpha, F_tract, Fy, maxF, totalF) ==
    LET clamped == totalF > maxF
        \* scale = maxF / totalF in 1/10000
        scale   == MulDiv(maxF, 10000, totalF)
        F_tract1 == IF clamped THEN MulDiv(F_tract, scale, 10000) ELSE F_tract
        Fy1      == IF clamped THEN MulDiv(Fy, scale, 10000) ELSE Fy
        skid0    == IF clamped THEN MulDiv(totalF - maxF, InU, maxF) ELSE 0
        skid1    == Max(skid0, Min(InU, (Abs(alpha) - 150) * 2))
        forceLat  == V3Scale(wLeft, Fy1, DirU)
        forceLong == V3Scale(wFwd, F_tract1, DirU)
    IN  [ vLong |-> vLong, vLat |-> vLat, alpha |-> alpha,
          rawTract |-> F_tract, rawFy |-> Fy, maxF |-> maxF, totalF |-> totalF,
          tract |-> F_tract1, fy |-> Fy1,
          skid |-> skid1,
          totalTire |-> V3Add(forceLat, forceLong),
          wheelSpeed |-> MulDiv(vLong, (PosU \div VelU) * AngU, tire.radius) ]

\* A variant of the friction limit that scales the tractive force alone
TireForceLimitedTractOnly(tire, wFwd, wLeft, vLong, vLat, alpha, F_tract, Fy, maxF, totalF) ==
    LET clamped == totalF > maxF
        \* scale = maxF / totalF in 1/10000
        scale   == MulDiv(maxF, 10000, totalF)
        F_tract1 == IF clamped THEN MulDiv(F_tract, scale, 10000) ELSE F_tract
        Fy1      == Fy
        skid0    == IF clamped THEN MulDiv(totalF - maxF, InU, maxF) ELSE 0
        skid1    == Max(skid0, Min(InU, (Abs(alpha) - 150) * 2))
        forceLat  == V3Scale(wLeft, Fy1, DirU)
        forceLong == V3Scale(wFwd, F_tract1, DirU)
    IN  [ vLong |-> vLong, vLat |-> vLat, alpha |-> alpha,
          rawTract |-> F_tract, rawFy |-> Fy, maxF |-> maxF, totalF |-> totalF,
          tract |-> F_tract1, fy |-> Fy1,
          skid |-> Min(InU, Max(0, skid1)),
          totalTire |-> V3Add(forceLat, forceLong),
          wheelSpeed |-> MulDiv(vLong, (PosU \div VelU) * AngU, tire.radius) ]

\* The friction limit of the tire-force part: forces beyond maxF = 1.5 Fz
\* are scaled back onto it, and the skid intensity is what exceeded it or
\* what the slip angle gives
TireForceLimited(tire, wFwd, wLeft, vLong, vLat, alpha, F_tract, Fy, maxF, totalF) ==
    LET clamped == totalF > maxF
        \* scale = maxF / totalF in 1/10000
        scale   == MulDiv(maxF, 10000, totalF)
        F_tract1 == IF clamped THEN MulDiv(F_tract, scale, 10000) ELSE F_tract
        Fy1      == IF clamped THEN MulDiv(Fy, scale, 10000) ELSE Fy
        skid0    == IF clamped THEN MulDiv(totalF - maxF, InU, maxF) ELSE 0
        skid1    == Max(skid0, Min(InU, (Abs(alpha) - 150) * 2))
        forceLat  == V3Scale(wLeft, Fy1, DirU)
        forceLong == V3Scale(wFwd, F_tract1, DirU)
    IN  [ vLong |-> vLong, vLat |-> vLat, alpha |-> alpha,
          rawTract |-> F_tract, rawFy |-> Fy, maxF |-> maxF, totalF |-> totalF,
          tract |-> F_tract1, fy |-> Fy1,
          skid |-> Min(InU, Max(0, skid1)),
          totalTire |-> V3Add(forceLat, forceLong),
          wheelSpeed |-> MulDiv(vLong, (PosU \div VelU) * AngU, tire.radius) ]

\* totalF = Math.sqrt(F_tract * F_tract + Fy * Fy)
TireForceCombined(tire, wFwd, wLeft, vLong, vLat, alpha, F_tract, Fy, maxF) ==
    TireForceLimited(tire, wFwd, wLeft, vLong, vLat, alpha, F_tract, Fy, maxF,
                     Hypot(F_tract, Fy))

\* the lateral force of pacejka.calculate(Fz, alpha, 0), and maxF = Fz * 1.5
TireForceAtSlip(tire, Fz, wFwd, wLeft, vLong, vLat, alpha, F_tract) ==
    TireForceCombined(tire, wFwd, wLeft, vLong, vLat, alpha, F_tract,
                      PacejkaCalculate(Fz, alpha, 0).fy, Quot(Fz * 15, 10))

\* A variant of the slip angle whose deadband ends at 0.01 m/s
SlipAngleNarrowDeadband(vLong, vLat) ==
    IF Abs(vLong) > VelU \div 100 THEN Atan2Pos(vLat, Abs(vLong)) ELSE 0

\* alpha = atan2(vLat, |vLong|) above 0.1 m/s of longitudinal speed, else 0
SlipAngle(vLong, vLat) ==
    IF Abs(vLong) > VelU \div 10 THEN Atan2Pos(vLat, Abs(vLong)) ELSE 0

\* A variant of F_tract without the drive force
TractionBrakeOnly(tire, i, inputs, wheelTorque, vLong) ==
    LET drive == 0
    IN  IF inputs.brake > 0
        THEN drive - Quot(inputs.brake * 4000, InU) * Sign(vLong)
        ELSE drive

\* F_tract: the drive force on the rear wheels, less the brake force
Traction(tire, i, inputs, wheelTorque, vLong) ==
    LET drive == IF i >= 2 THEN Quot(wheelTorque * (PosU \div TqU), tire.radius) ELSE 0
    IN  IF inputs.brake > 0
        THEN drive - Quot(inputs.brake * 4000, InU) * Sign(vLong)
        ELSE drive

\* the slip angle and the traction force from the hub's velocities
TireForceAtSpeed(tire, i, Fz, inputs, wheelTorque, wFwd, wLeft, vLong, vLat) ==
    TireForceAtSlip(tire, Fz, wFwd, wLeft, vLong, vLat, SlipAngle(vLong, vLat),
                    Traction(tire, i, inputs, wheelTorque, vLong))

\* vLong and vLat: the hub velocity along the wheel's axes
TireForceOnAxes(tire, i, Fz, hubVel, inputs, wheelTorque, wFwd, wLeft) ==
    TireForceAtSpeed(tire, i, Fz, inputs, wheelTorque, wFwd, wLeft,
                     Quot(V3Dot(hubVel, wFwd), DirU), Quot(V3Dot(hubVel, wLeft), DirU))

\* The tire-force part of one corner (taken when Fz > 0): the forces, the
\* skid intensity and the new wheel speed
TireForce(tire, i, Fz, hubVel, bodyQ, steerAngle, inputs, wheelTorque) ==
    TireForceOnAxes(tire, i, Fz, hubVel, inputs, wheelTorque,
                    \* wFwd and wLeft: the wheel's axes rotated into the world
                    V3Rotate(Vec(Cos(steerAngle), Sin(steerAngle), 0), bodyQ),
                    V3Rotate(Vec(-Sin(steerAngle), Cos(steerAngle), 0), bodyQ))

\* A variant of the else branch in which the stored skid intensity feeds the
\* wheel speed
AirborneCornerSkidFeedback(tire, body, oldSkid) ==
    [tire |-> [tire EXCEPT !.wheelSpeed = @ + oldSkid], body |-> body, skid |-> 0]

\* A variant of the else branch that leaves the skid intensity as it was
AirborneCornerKeepSkid(tire, body, oldSkid) ==
    [tire |-> tire, body |-> body, skid |-> oldSkid]

\* The else branch of the tire-force part (Fz = 0): the skid intensity is
\* zeroed, the tire is left as it is and nothing is added to the body
AirborneCorner(tire, body, oldSkid) == [tire |-> tire, body |-> body, skid |-> 0]

\* The then branch (Fz > 0): the tire force is applied at the contact patch
GroundedCorner(tire, body, tf, contactPos) ==
    [ tire |-> [tire EXCEPT !.wheelSpeed = tf.wheelSpeed],
      body |-> AddForceAtPoint(body, tf.totalTire, contactPos),
      skid |-> tf.skid ]

\* The kinematics of one corner, offsetWorld being the tire's offset rotated
\* into the world: the mount point, the hub velocity, the spring length and
\* the compression
CornerKinematics(body, tire, susp, env, offsetWorld) ==
    LET mountPos    == V3Add(body.position, V3Scale(offsetWorld, PosU, LenU))
        rotVel      == V3Cross(body.angularVelocity, offsetWorld)
        groundZ     == GetGroundHeight(env, mountPos.x, mountPos.y)
        currentHeight == mountPos.z - groundZ
        springLen   == currentHeight - tire.radius
    IN  [ mountPos    |-> mountPos,
          hubVel      |-> V3Add(body.velocity,
                                V3Scale(rotVel, 1, (LenU * AngU) \div VelU)),
          springLen   |-> springLen,
          compression |-> susp.restLength - springLen ]

\* The end of one iteration: body1 is the body after the suspension force,
\* tf the tire force (used when Fz > 0), branch what the tire-force part
\* left; the vehicle, the heap and the log after the iteration
CornerResult(st, i, k, sres, Fz, bodyUp, body1, wheelCenter, wheelQ, tf, branch) ==
    [ veh  |-> [st.veh EXCEPT !.body = branch.body,
                              !.tires[i + 1] = branch.tire,
                              !.suspensions[i + 1] = sres.susp],
      heap |-> [st.heap EXCEPT
                   ![st.veh.wheelTransforms.ref] =
                       [@ EXCEPT ![i + 1] = [position |-> wheelCenter,
                                             orientation |-> wheelQ]],
                   ![st.veh.wheelSkids.ref] = [@ EXCEPT ![i + 1] = branch.skid]],
      log  |-> Append(st.log,
                 [ compression |-> k.compression,
                   suspClass   |-> sres.class,
                   suspForce   |-> sres.force,
                   Fz          |-> Fz,
                   bodyUp      |-> bodyUp,
                   \* what the suspension part added to the body
                   suspApplied |-> V3Sub(body1.forceAccum, st.veh.body.forceAccum),
                   tire        |-> IF Fz > 0 THEN tf ELSE [totalTire |-> V3Zero],
                   \* what the tire-force part added to the body
                   tireForce   |-> V3Sub(branch.body.forceAccum, body1.forceAccum),
                   tireTorque  |-> V3Sub(branch.body.torqueAccum, body1.torqueAccum),
                   skidBefore  |-> st.heap[st.veh.wheelSkids.ref][i + 1],
                   skidAfter   |-> branch.skid,
                   wheelSpeedBefore |-> st.veh.tires[i + 1].wheelSpeed,
                   wheelSpeedAfter  |-> branch.tire.wheelSpeed ]) ]

\* The tire-force part of one iteration: if (Fz > 0) { ... } else { ... }
CornerTire(st, i, k, sres, Fz, bodyUp, body1, wheelCenter, wheelQ, tf) ==
    CornerResult(st, i, k, sres, Fz, bodyUp, body1, wheelCenter, wheelQ, tf,
        IF Fz > 0
        THEN GroundedCorner(st.veh.tires[i + 1], body1, tf,
                 \* contactPos
                 V3Add(wheelCenter,
                       V3Scale(V3Rotate(Vec(0, 0, DirU), st.veh.body.orientation),
                               -st.veh.tires[i + 1].radius, DirU)))
        ELSE AirborneCorner(st.veh.tires[i + 1], body1,
                            st.heap[st.veh.wheelSkids.ref][i + 1]))

\* The suspension force on the body, the wheel's centre and orientation for
\* rendering, and the tire force, Fz being the clamped suspension force
CornerWheel(st, i, inputs, wheelTorque, k, sres, Fz, bodyUp, steerAngle) ==
    CornerTire(st, i, k, sres, Fz, bodyUp,
        \* body1
        IF Fz > 0
        THEN AddForceAtPoint(st.veh.body, V3Scale(bodyUp, Fz, DirU), k.mountPos)
        ELSE st.veh.body,
        \* wheelCenter = mountPos + suspOffset
        V3Add(k.mountPos, V3ScaleDir(bodyUp, -Max(PosU \div 10, k.springLen))),
        \* wheelQ = normalize(bodyQ * steerQ)
        QNormalize(QMultiply(st.veh.body.orientation,
                             Quat(0, 0, Sin(Quot(steerAngle, 2)) * (QuatU \div DirU),
                                  Cos(Quot(steerAngle, 2)) * (QuatU \div DirU)))),
        TireForce(st.veh.tires[i + 1], i, Fz, k.hubVel, st.veh.body.orientation,
                  steerAngle, inputs, wheelTorque))

\* A variant in which the suspension force acts with its magnitude
CornerSuspensionPulling(st, i, inputs, wheelTorque, k, sres) ==
    CornerWheel(st, i, inputs, wheelTorque, k, sres,
        \* Fz
        Abs(sres.force),
        \* bodyUp
        V3Rotate(Vec(0, 0, DirU), st.veh.body.orientation),
        \* steerAngle
        IF i < 2 THEN Quot(inputs.steering * AngU, 2 * InU) ELSE 0)

\* susp.update(compression, dt) has returned sres; Fz = Math.max(0, .) of it.
\* Of the non-finite results (force 0 in sres), -Infinity gives Fz = 0 and
\* NaN gives an Fz that fails both Fz > 0 tests as 0 does; Infinity makes
\* the update non-finite (see VehicleUpdateResult)
CornerSuspension(st, i, inputs, wheelTorque, k, sres) ==
    CornerWheel(st, i, inputs, wheelTorque, k, sres,
        \* Fz
        Max(0, sres.force),
        \* bodyUp
        V3Rotate(Vec(0, 0, DirU), st.veh.body.orientation),
        \* steerAngle
        IF i < 2 THEN Quot(inputs.steering * AngU, 2 * InU) ELSE 0)

\* The iteration after the kinematics k
CornerAt(st, i, dt, inputs, wheelTorque, k) ==
    CornerSuspension(st, i, inputs, wheelTorque, k,
                     SuspensionUpdate(st.veh.suspensions[i + 1], k.compression, dt))

\* One iteration of the wheel loop, for corner i in 0..3
CornerUpdate(st, i, dt, inputs, env, wheelTorque) ==
    CornerAt(st, i, dt, inputs, wheelTorque,
             CornerKinematics(st.veh.body, st.veh.tires[i + 1],
                              st.veh.suspensions[i + 1], env,
                              V3Rotate(st.veh.tires[i + 1].offset,
                                       st.veh.body.orientation)))

RECURSIVE WheelLoop(_, _, _, _, _, _)
\* for (let i = 0; i < 4; i++)
WheelLoop(st, i, dt, inputs, env, wheelTorque) ==
    IF i < 4
    THEN WheelLoop(CornerUpdate(st, i, dt, inputs, env, wheelTorque),
                   i + 1, dt, inputs, env, wheelTorque)
    ELSE st

\* A variant in which the drag pushes along the velocity
BodyForcesDragAlong(body, globals, dt) ==
    LET b1      == AddForce(body, V3Scale(globals.GRAVITY, body.mass, LenU))
        \* speed in cm/s
        speed   == Quot(V3Magnitude(body.velocity, 100), 100)
        \* 0.5 * 1.2 * 0.3 * 2.2 * speed * speed, in N
        dragMag == Quot(Quot(speed * speed, 100) * 396, 100000)
        dragDir == V3Scale(V3Normalize(body.velocity, 100), 1, 1)
        b2      == AddForce(b1, V3Scale(dragDir, dragMag, DirU))
    IN  [ body |-> Integrate(b2, dt), globals |-> globals ]

\* A variant in which scale() writes the weight into the GRAVITY object
BodyForcesScalingInPlace(body, globals, dt) ==
    LET weight  == V3Scale(globals.GRAVITY, body.mass, LenU)
        b1      == AddForce(body, weight)
        speed   == Quot(V3Magnitude(body.velocity, 100), 100)
        dragMag == Quot(Quot(speed * speed, 100) * 396, 100000)
        dragDir == V3Scale(V3Normalize(body.velocity, 100), -1, 1)
        b2      == AddForce(b1, V3Scale(dragDir, dragMag, DirU))
    IN  [ body |-> Integrate(b2, dt), globals |-> [globals EXCEPT !.GRAVITY = weight] ]

\* Gravity and drag, then body.integrate(dt).  GRAVITY is the module-level
\* object of utils/constants.ts; scale() reads it and builds a new vector
BodyForces(body, globals, dt) ==
    LET b1      == AddForce(body, V3Scale(globals.GRAVITY, body.mass, LenU))
        \* speed in cm/s
        speed   == Quot(V3Magnitude(body.velocity, 100), 100)
        \* 0.5 * 1.2 * 0.3 * 2.2 * speed * speed, in N
        dragMag == Quot(Quot(speed * speed, 100) * 396, 100000)
        dragDir == V3Scale(V3Normalize(body.velocity, 100), -1, 1)
        b2      == AddForce(b1, V3Scale(dragDir, dragMag, DirU))
    IN  [ body |-> Integrate(b2, dt), globals |-> globals ]

\* The end of update(): d is what the drivetrain part left, st what the
\* wheel loop left, bf the body after gravity, drag and integrate
VehicleUpdateResult(veh, dt, inputs, d, st, bf) ==
    [ veh  |-> [st.veh EXCEPT !.body = bf.body],
      heap |-> st.heap,
      globals |-> bf.globals,
      \* an infinite suspension force makes the body's state NaN
      finite  |-> \A c \in 1..Len(st.log) : st.log[c].suspClass # "+Infinity",
      log  |-> [ dt |-> dt, inputs |-> inputs, ratio |-> d.ratio,
                 gearBefore |-> veh.trans.currentGear,
                 gearAfter |-> d.trans.currentGear,
                 coupledRPM |-> d.coupledRPM,
                 engineTorque |-> d.engineTorque,
                 wheelTorque |-> d.wheelTorque,
                 corners |-> st.log ] ]

\* The body forces and the integration, after the wheel loop
VehicleUpdateBody(veh, dt, inputs, globals, d, st) ==
    VehicleUpdateResult(veh, dt, inputs, d, st, BodyForces(st.veh.body, globals, dt))

\* The wheel loop, after the drivetrain part
VehicleUpdateWheels(veh, heap, dt, inputs, env, globals, d) ==
    VehicleUpdateBody(veh, dt, inputs, globals, d,
        WheelLoop([veh |-> [veh EXCEPT !.engine = d.engine, !.trans = d.trans],
                   heap |-> heap, log |-> <<>>],
                  0, dt, inputs, env, d.wheelTorque))

\* update(dt, inputs, env): the vehicle, the heap and a log of what the
\* tick computed (the log is not program state); when finite is FALSE the
\* body's state is NaN and the other fields say nothing
VehicleUpdate(veh, heap, dt, inputs, env, globals) ==
    VehicleUpdateWheels(veh, heap, dt, inputs, env, globals,
                        DrivetrainUpdate(veh, dt, inputs))

\* getState(): the body's base state with the drivetrain fields, and the
\* vehicle's own wheelTransforms and wheelSkids arrays (references)
VehicleGetState(veh) ==
    [RigidBodyGetState(veh.body) EXCEPT
        !.engineRPM    = veh.engine.rpm,
        !.gear         = veh.trans.currentGear,
        !.engineTorque = GetTorqueCurve(veh.engine, veh.engine.rpm)]
    @@ [wheelTransforms |-> veh.wheelTransforms, wheelSkids |-> veh.wheelSkids]

(***************************************************************************)
(* PhysicsEngine (core/PhysicsEngine.ts).  currentInput is a reference:    *)
(* at first to the engine's own default object, after applyInput(input)    *)
(* to the object the caller passed.                                        *)
(***************************************************************************)
Input(t, b, s) == [throttle |-> t, brake |-> b, steering |-> s]

DefaultInput == Input(0, 0, 0)

\* dt > 0.25 is clamped to 0.25 s
MaxFrameTime == TimeUnit \div 4

NewPhysicsEngine ==
    [ accumulator  |-> 0,
      currentTime  |-> 0,
      currentInput |-> Ref("defaultInput") ]

\* The state of one simulation: an engine, its vehicle and environment, and
\* the heap objects they share with their callers
NewSim(envKind, z0) ==
    [ engine  |-> NewPhysicsEngine,
      vehicle |-> [NewVehicle(VehicleConfig) EXCEPT !.body.position.z = z0],
      env     |-> envKind,
      heap    |-> NewVehicleHeap(VehicleConfig)
                  @@ [defaultInput |-> DefaultInput, callerInput |-> DefaultInput] ]

\* What fixedUpdate leaves when vehicle.update has returned u
Updated(sim, u) ==
    [ sim |-> [sim EXCEPT !.vehicle = u.veh, !.heap = u.heap],
      globals |-> u.globals,
      log |-> u.log ]

\* A variant of fixedUpdate that hands the vehicle the whole accumulated time
FixedUpdateElapsed(sim, dt, globals) ==
    Updated(sim, VehicleUpdate(sim.vehicle, sim.heap, sim.engine.accumulator,
                               sim.heap[sim.engine.currentInput.ref], sim.env, globals))

\* fixedUpdate(dt): vehicle.update(dt, this.currentInput, this.env)
FixedUpdate(sim, dt, globals) ==
    Updated(sim, VehicleUpdate(sim.vehicle, sim.heap, dt,
                               sim.heap[sim.engine.currentInput.ref], sim.env, globals))

\* A variant of the clock advance that leaves currentTime as it is
AdvanceClockKeepTime(engine) ==
    [engine EXCEPT !.accumulator = engine.accumulator - FIXED_TIMESTEP]

\* A variant of the clock advance that drops what is left of the accumulator
AdvanceClockDropRemainder(engine) ==
    [engine EXCEPT !.accumulator = 0,
                   !.currentTime = engine.currentTime + FIXED_TIMESTEP]

\* this.accumulator -= FIXED_TIMESTEP; this.currentTime += FIXED_TIMESTEP
AdvanceClock(engine) ==
    [engine EXCEPT !.accumulator = engine.accumulator - FIXED_TIMESTEP,
                   !.currentTime = engine.currentTime + FIXED_TIMESTEP]

\* One iteration of the loop, f being what fixedUpdate left: the clock
\* advances and the update is logged
Ticked(f, logs) ==
    [ sim |-> [f.sim EXCEPT !.engine = AdvanceClock(f.sim.engine)],
      globals |-> f.globals,
      logs |-> Append(logs, f.log) ]

\* A variant of the loop with an if for the while: one fixedUpdate at most
StepLoopOnce(sim, globals, logs) ==
    IF sim.engine.accumulator >= FIXED_TIMESTEP
    THEN Ticked(FixedUpdate(sim, FIXED_TIMESTEP, globals), logs)
    ELSE [sim |-> sim, globals |-> globals, logs |-> logs]

RECURSIVE StepLoop(_, _, _)
\* the loop condition is tested again on what the iteration left
StepLoopAgain(t) == StepLoop(t.sim, t.globals, t.logs)

\* while (this.accumulator >= FIXED_TIMESTEP) { ... }
StepLoop(sim, globals, logs) ==
    IF sim.engine.accumulator >= FIXED_TIMESTEP
    THEN StepLoopAgain(Ticked(FixedUpdate(sim, FIXED_TIMESTEP, globals), logs))
    ELSE [sim |-> sim, globals |-> globals, logs |-> logs]

\* A variant of the clamp that lets every frame time through
ClampDtUnclamped(dt) == dt

\* if (dt > 0.25) dt = 0.25
ClampDt(dt) == IF dt > MaxFrameTime THEN MaxFrameTime ELSE dt

\* step(dt): the simulation after the call, and the log of every
\* fixedUpdate the call executed
StepSim(sim, dt, globals) ==
    StepLoop([sim EXCEPT !.engine.accumulator = sim.engine.accumulator + ClampDt(dt)],
             globals, <<>>)

\* A variant of applyInput in which the first input applied stays
ApplyInputSimFirstWins(sim, input) ==
    IF sim.engine.currentInput = Ref("callerInput") THEN sim
    ELSE [sim EXCEPT !.heap.callerInput = input,
                     !.engine.currentInput = Ref("callerInput")]

\* applyInput(input): the caller's object becomes the current input
ApplyInputSim(sim, input) ==
    [sim EXCEPT !.heap.callerInput = input,
                !.engine.currentInput = Ref("callerInput")]

\* getState(): what the vehicle returns
GetStateSim(sim) == VehicleGetState(sim.vehicle)

\* A variant of reset that also places the body where the caller asked
ResetSimPlaced(sim, position, orientation) ==
    [sim EXCEPT !.engine.accumulator = 0, !.engine.currentTime = 0,
                !.vehicle.body.position = position,
                !.vehicle.body.orientation = orientation,
                !.vehicle.body.velocity = V3Zero,
                !.vehicle.body.angularVelocity = V3Zero]

\* reset(position, orientation)
ResetSim(sim, position, orientation) ==
    [sim EXCEPT !.engine.accumulator = 0, !.engine.currentTime = 0]

(***************************************************************************)
(* The state machine.  sims maps each simulation instance to its state,    *)
(* globals holds the module-level objects the instances share.  hist,      *)
(* last and snap record what the callers did and saw; tire holds the       *)
(* arguments and the result of a direct PacejkaTire.calculate call; part   *)
(* holds a component that is constructed and called on its own.            *)
(***************************************************************************)
VARIABLES sims, globals, hist, last, snap, tire, part

vars == <<sims, globals, hist, last, snap, tire, part>>

\* Bounds of the exploration
MaxCalls == 3
MaxTicks == 17

\* Frame times handed to step(): 0, T/2, T, 2T, 0.25 s and 1 s
StepTimes == {0, FIXED_TIMESTEP \div 2, FIXED_TIMESTEP, 2 * FIXED_TIMESTEP,
              MaxFrameTime, TimeUnit}

\* Control inputs handed to applyInput()
Inputs == {Input(InU, 0, InU), Input(0, InU, 0), Input(InU \div 2, 0, -InU)}

\* Initial configurations: a new vehicle (spawned at 0.6 m) over the flat
\* ground, and over the far-away ground of tests/physics.test.ts
Starts == { [env |-> "Flat", z0 |-> (6 * PosU) \div 10],
            [env |-> "EmptySpace", z0 |-> (6 * PosU) \div 10] }

NoCall == [op |-> "none"]
NoSnap == [taken |-> FALSE]
NoTire == [called |-> FALSE]
NoPart == [kind |-> "none"]

NewHist ==
    [ calls |-> 0, steps |-> 0, ticks |-> 0, resets |-> 0,
      \* since construction or the last reset
      updates |-> 0, sumDt |-> 0, inRange |-> TRUE, uniform |-> -1,
      \* the sum of min(dt, 0.25 s) over the steps
      sumClamped |-> 0,
      \* some frame time was longer than one fixed timestep
      coarse |-> FALSE,
      \* the input most recently passed to applyInput, the inputs passed
      \* since the last step, and those passed before the last step
      applied |-> DefaultInput, pending |-> <<>>, consumed |-> <<>>,
      \* the (dt, input) of every Vehicle.update since construction
      trace |-> <<>> ]

InitWith(instances, starts) ==
    /\ \E st \in starts : sims = [r \in instances |-> NewSim(st.env, st.z0)]
    /\ globals = InitialGlobals
    /\ hist = [r \in instances |-> NewHist]
    /\ last = [r \in instances |-> NoCall]
    /\ snap = NoSnap
    /\ tire = NoTire
    /\ part = NoPart

Init == InitWith({1}, Starts)

\* The bookkeeping of one step(dt) call whose fixedUpdates logged logs
HistAfterStep(h, dt, logs) ==
    [h EXCEPT !.calls = h.calls + 1, !.steps = h.steps + 1,
              !.ticks = h.ticks + Len(logs), !.updates = h.updates + Len(logs),
              !.trace = h.trace \o [i \in 1..Len(logs) |->
                                      [dt |-> logs[i].dt, inputs |-> logs[i].inputs]],
              !.sumDt = h.sumDt + dt,
              !.sumClamped = h.sumClamped + Min(dt, TimeUnit \div 4),
              !.inRange = h.inRange /\ dt >= 0 /\ dt <= MaxFrameTime,
              !.coarse = h.coarse \/ dt > FIXED_TIMESTEP,
              !.uniform = IF h.uniform \in {-1, dt} THEN dt ELSE -2,
              !.pending = <<>>, !.consumed = h.pending]

\* An upper estimate of the fixedUpdates a step(dt) may add to the budget
Cost(dt) == (IF dt > MaxFrameTime THEN MaxFrameTime ELSE dt) \div FIXED_TIMESTEP + 1

\* engine.step(dt) on instance r
Step(r, dt) ==
    /\ hist[r].calls < MaxCalls
    /\ hist[r].ticks + Cost(dt) <= MaxTicks
    /\ \E s \in {StepSim(sims[r], dt, globals)} :
           /\ sims' = [sims EXCEPT ![r] = s.sim]
           /\ globals' = s.globals
           /\ hist' = [hist EXCEPT ![r] = HistAfterStep(hist[r], dt, s.logs)]
           /\ last' = [last EXCEPT ![r] = [op |-> "step", dt |-> dt,
                                           before |-> sims[r], logs |-> s.logs]]
    /\ UNCHANGED <<snap, tire, part>>

\* engine.applyInput(input) on instance r
ApplyInput(r, input) ==
    /\ hist[r].calls < MaxCalls
    /\ sims' = [sims EXCEPT ![r] = ApplyInputSim(sims[r], input)]
    /\ hist' = [hist EXCEPT ![r].calls = @ + 1, ![r].applied = input,
                            ![r].pending = Append(@, input)]
    /\ last' = [last EXCEPT ![r] = [op |-> "applyInput", before |-> sims[r]]]
    /\ UNCHANGED <<globals, snap, tire, part>>

\* The content a caller reads through a state object: its value fields and
\* the arrays its references point to
Deref(state, heap) ==
    [state EXCEPT !.wheelTransforms = heap[state.wheelTransforms.ref],
                  !.wheelSkids = heap[state.wheelSkids.ref]]

\* engine.getState() on instance r; the caller keeps the returned object
GetState(r) ==
    /\ hist[r].calls < MaxCalls
    /\ \E state \in {GetStateSim(sims[r])} :
           snap' = [taken |-> TRUE, state |-> state,
                    seen |-> Deref(state, sims[r].heap)]
    /\ hist' = [hist EXCEPT ![r].calls = @ + 1]
    /\ last' = [last EXCEPT ![r] = [op |-> "getState", before |-> sims[r]]]
    /\ UNCHANGED <<sims, globals, tire, part>>

\* Positions and orientations handed to reset()
ResetPositions == {V3Zero, Vec(5 * PosU, 0, 2 * PosU)}

\* engine.reset(position, orientation) on instance r
Reset(r, position) ==
    /\ hist[r].calls < MaxCalls
    /\ sims' = [sims EXCEPT ![r] = ResetSim(sims[r], position, QIdentity)]
    /\ hist' = [hist EXCEPT ![r].calls = @ + 1, ![r].resets = @ + 1,
                            ![r].updates = 0, ![r].sumDt = 0, ![r].sumClamped = 0,
                            ![r].inRange = TRUE, ![r].uniform = -1,
                            ![r].coarse = FALSE]
    /\ last' = [last EXCEPT ![r] = [op |-> "reset", position |-> position,
                                    before |-> sims[r]]]
    /\ UNCHANGED <<globals, snap, tire, part>>

Next ==
    \/ \E dt \in StepTimes : Step(1, dt)
    \/ \E input \in Inputs : ApplyInput(1, input)
    \/ GetState(1)
    \/ \E position \in ResetPositions : Reset(1, position)

Spec == Init /\ [][Next]_vars

(***************************************************************************)
(* Properties of one engine driven through its interface (Spec).           *)
(***************************************************************************)
Stepped == last[1].op = "step"

TickLogs == IF Stepped THEN last[1].logs ELSE <<>>

\* C3: every step(dt) call returns, with the accumulator back below one
\* FIXED_TIMESTEP, after at most 15 fixedUpdate iterations, whatever dt was
\* and whatever the accumulator carried in
C3_StepBounded ==
    Stepped =>
        /\ Len(last[1].logs) <= 15
        /\ last[1].before.engine.accumulator < FIXED_TIMESTEP
        /\ sims[1].engine.accumulator >= 0
        /\ sims[1].engine.accumulator < FIXED_TIMESTEP

\* a step of one second on top of a carried accumulator ran 15 iterations
C3_Witness ==
    /\ Stepped /\ last[1].dt > MaxFrameTime
    /\ last[1].before.engine.accumulator > 0
    /\ Len(last[1].logs) = 15

\* C4: Vehicle.update only ever sees dt = FIXED_TIMESTEP, once per clock
\* advance, and currentTime is FIXED_TIMESTEP times the fixedUpdates executed
\* since construction or the last reset
C4_FixedDt ==
    /\ \A i \in 1..Len(TickLogs) : TickLogs[i].dt = FIXED_TIMESTEP
    /\ Stepped => sims[1].engine.currentTime - last[1].before.engine.currentTime
                     = FIXED_TIMESTEP * Len(last[1].logs)
    /\ sims[1].engine.currentTime = FIXED_TIMESTEP * hist[1].updates

\* a step of several updates after a reset that followed earlier updates
C4_Witness ==
    /\ Stepped /\ Len(last[1].logs) >= 2 /\ last[1].dt # 2 * FIXED_TIMESTEP
    /\ hist[1].resets > 0 /\ hist[1].ticks > hist[1].updates

\* C5: every fixedUpdate of a step passes the input of the most recent
\* applyInput before that step (the zero default if there was none); inputs
\* applied earlier and overwritten never reach Vehicle.update
C5_LastWriteWins ==
    \A i \in 1..Len(TickLogs) :
        /\ TickLogs[i].inputs = hist[1].applied
        /\ hist[1].consumed # <<>> =>
              TickLogs[i].inputs = hist[1].consumed[Len(hist[1].consumed)]

\* two different inputs were applied, then a step ran several updates
C5_Witness ==
    /\ Stepped /\ Len(last[1].logs) >= 2
    /\ Len(hist[1].consumed) >= 2
    /\ hist[1].consumed[1] # hist[1].consumed[2]

\* C6 as stated: what a caller reads through a state object returned by
\* getState() stays what it was when the object was returned
C6_SnapshotIndependent ==
    snap.taken => Deref(snap.state, sims[1].heap) = snap.seen

\* C8: reset zeroes the accumulator and the simulated time and leaves the
\* vehicle, the heap and the stored input as they were, whatever position
\* was passed; no other call makes the simulated time decrease
C8_ResetClearsClockOnly ==
    /\ last[1].op = "reset" =>
          /\ sims[1].engine.accumulator = 0
          /\ sims[1].engine.currentTime = 0
          /\ sims[1] = [last[1].before EXCEPT !.engine.accumulator = 0,
                                              !.engine.currentTime = 0]
    /\ last[1].op \in {"step", "applyInput", "getState"} =>
          sims[1].engine.currentTime >= last[1].before.engine.currentTime

\* a reset to another position after the clock and the body had moved
C8_Witness ==
    /\ last[1].op = "reset"
    /\ last[1].before.engine.currentTime > 0
    /\ last[1].before.engine.accumulator > 0
    /\ last[1].position # last[1].before.vehicle.body.position

\* C9: on every tick, a corner whose clamped suspension force Fz is 0 adds
\* no tire force or torque to the body, gets skid intensity 0, and keeps its
\* wheelSpeed
C9_Airborne ==
    \A i \in 1..Len(TickLogs) : \A c \in 1..4 :
        LET corner == TickLogs[i].corners[c]
        IN  corner.Fz = 0 =>
               /\ corner.tireForce = V3Zero
               /\ corner.tireTorque = V3Zero
               /\ corner.skidAfter = 0
               /\ corner.wheelSpeedAfter = corner.wheelSpeedBefore
               /\ i = Len(TickLogs) =>
                     sims[1].heap[sims[1].vehicle.wheelSkids.ref][c] = 0

\* a corner that was skidding and spinning left the ground
C9_Witness ==
    \E i \in 1..Len(TickLogs) : \E c \in 1..4 :
        LET corner == TickLogs[i].corners[c]
        IN  corner.Fz = 0 /\ corner.skidBefore > 0 /\ corner.wheelSpeedBefore # 0

(***************************************************************************)
(* The accumulator clock: one fresh engine, step() calls only, long runs   *)
(* of one frame time and short runs of mixed frame times (SpecClock).      *)
(***************************************************************************)
MaxClockSteps == 20
MaxMixedSteps == 3

\* No run goes past 16 fixed timesteps of frame time
ClockHorizon == 16 * FIXED_TIMESTEP

\* 0, T/2, 3T/4, T, 2T and 0.25 s
ClockTimes == {0, FIXED_TIMESTEP \div 2, (3 * FIXED_TIMESTEP) \div 4, FIXED_TIMESTEP,
               2 * FIXED_TIMESTEP, MaxFrameTime}

ClockStep(dt) ==
    /\ hist[1].steps < MaxClockSteps
    /\ hist[1].uniform \notin {-1, dt} => hist[1].steps < MaxMixedSteps
    /\ hist[1].sumDt + dt <= ClockHorizon
    /\ \E s \in {StepSim(sims[1], dt, globals)} :
           /\ sims' = [sims EXCEPT ![1] = s.sim]
           /\ globals' = s.globals
           /\ hist' = [hist EXCEPT ![1] = HistAfterStep(hist[1], dt, s.logs)]
           /\ last' = [last EXCEPT ![1] = [op |-> "step", dt |-> dt,
                                           before |-> sims[1], logs |-> s.logs]]
    /\ UNCHANGED <<snap, tire, part>>

NextClock == \E dt \in ClockTimes : ClockStep(dt)

SpecClock == Init /\ [][NextClock]_vars

\* C2: on a fresh engine stepped with frame times in 0..0.25 s the number of
\* fixedUpdates executed is floor(sum of dt / FIXED_TIMESTEP); 10 steps of T,
\* 5 steps of 2T and 20 steps of T/2 execute 10 each, and steps of T/2
\* execute one on every second call
C2_UpdateCount ==
    LET h == hist[1]
        T == FIXED_TIMESTEP
    IN  /\ h.inRange => h.updates = h.sumDt \div T
        /\ h.uniform = T /\ h.steps = 10 => h.updates = 10
        /\ h.uniform = 2 * T /\ h.steps = 5 => h.updates = 10
        /\ h.uniform = T \div 2 /\ h.steps = 20 => h.updates = 10
        /\ h.uniform = T \div 2 /\ Stepped =>
              Len(last[1].logs) = (IF h.steps % 2 = 0 THEN 1 ELSE 0)

\* twenty steps of half a timestep were taken
C2_Witness ==
    /\ hist[1].uniform = FIXED_TIMESTEP \div 2 /\ hist[1].steps = 20
    /\ hist[1].updates = 10 /\ sims[1].engine.accumulator = 0

(***************************************************************************)
(* Two runs fed the same input and sliced independently (SpecSlicing).     *)
(* The runs do not interact, so it is enough to let a run that is not      *)
(* ahead of the other in elapsed frame time go next.                       *)
(***************************************************************************)
\* T/2, T, 2T, 8T and 16T (above the 0.25 s ceiling)
SliceTimes == {FIXED_TIMESTEP \div 2, FIXED_TIMESTEP, 2 * FIXED_TIMESTEP,
               8 * FIXED_TIMESTEP, 16 * FIXED_TIMESTEP}

SliceInputs == {Input(InU, 0, InU)}

\* Both runs start on the flat ground
InitSlicing == InitWith({1, 2}, {st \in Starts : st.env = "Flat"})

\* Both runs get the same input before their first step
SliceInput(input) ==
    /\ \A r \in {1, 2} : hist[r].calls = 0
    /\ sims' = [r \in {1, 2} |-> ApplyInputSim(sims[r], input)]
    /\ hist' = [r \in {1, 2} |-> [hist[r] EXCEPT !.calls = 1, !.applied = input]]
    /\ UNCHANGED <<globals, last, snap, tire, part>>

SliceStep(r, dt) ==
    /\ hist[r].calls = 1
    /\ hist[r].sumDt <= hist[3 - r].sumDt
    /\ hist[r].sumDt + dt <= ClockHorizon
    /\ \E s \in {StepSim(sims[r], dt, globals)} :
           /\ sims' = [sims EXCEPT ![r] = s.sim]
           /\ globals' = s.globals
           /\ hist' = [hist EXCEPT ![r] =
                          \* the slices are not counted
                          [HistAfterStep(hist[r], dt, s.logs) EXCEPT
                              !.calls = 1, !.steps = 0, !.uniform = -1]]
    /\ UNCHANGED <<last, snap, tire, part>>

NextSlicing ==
    \/ \E input \in SliceInputs : SliceInput(input)
    \/ \E r \in {1, 2} : \E dt \in SliceTimes : SliceStep(r, dt)

SpecSlicing == InitSlicing /\ [][NextSlicing]_vars

SameOutcome ==
    /\ hist[1].trace = hist[2].trace
    /\ sims[1].vehicle = sims[2].vehicle
    /\ sims[1].heap = sims[2].heap
    /\ sims[1].engine = sims[2].engine

\* C1 as stated: two runs with the same input and the same total frame time
\* execute the same sequence of fixedUpdates and end in the same state,
\* whatever the frame times were
C1_SlicingAnyDt ==
    hist[1].sumDt = hist[2].sumDt => SameOutcome

\* C1, amended: two runs with the same input and the same total frame time,
\* every frame time in 0..0.25 s, execute the same sequence of fixedUpdates
\* and end in the same state
C1_SlicingInRange ==
    hist[1].inRange /\ hist[2].inRange /\ hist[1].sumDt = hist[2].sumDt
        => SameOutcome

\* the same total of nine and a half timesteps, cut in slices of at most
\* one timestep in one run and with longer slices in the other
C1_Witness ==
    /\ hist[1].inRange /\ hist[2].inRange
    /\ hist[1].sumDt = hist[2].sumDt
    /\ hist[1].sumDt = 9 * FIXED_TIMESTEP + FIXED_TIMESTEP \div 2
    /\ ~hist[1].coarse /\ hist[2].coarse
    /\ hist[1].updates = 9 /\ sims[1].engine.accumulator > 0
    /\ hist[1].applied # DefaultInput

(***************************************************************************)
(* Two engines constructed alike in one process and given the same calls,  *)
(* the first engine served before the second (SpecLockstep).  Both read    *)
(* the module-level objects in globals.                                    *)
(***************************************************************************)
MaxLockCalls == 3

\* T/2, T and one second
LockTimes == {FIXED_TIMESTEP \div 2, FIXED_TIMESTEP, TimeUnit}

InitLockstep == InitWith({1, 2}, Starts)

LockStep(dt) ==
    /\ hist[1].calls < MaxLockCalls
    /\ hist[1].ticks + Cost(dt) <= MaxTicks
    /\ \E s1 \in {StepSim(sims[1], dt, globals)} :
       \E s2 \in {StepSim(sims[2], dt, s1.globals)} :
           /\ sims' = [r \in {1, 2} |-> IF r = 1 THEN s1.sim ELSE s2.sim]
           /\ globals' = s2.globals
           /\ hist' = [r \in {1, 2} |->
                          HistAfterStep(hist[r], dt, IF r = 1 THEN s1.logs ELSE s2.logs)]
    /\ UNCHANGED <<last, snap, tire, part>>

LockApplyInput(input) ==
    /\ hist[1].calls < MaxLockCalls
    /\ sims' = [r \in {1, 2} |-> ApplyInputSim(sims[r], input)]
    /\ hist' = [r \in {1, 2} |-> [hist[r] EXCEPT !.calls = @ + 1, !.applied = input,
                                                 !.pending = Append(@, input)]]
    /\ UNCHANGED <<globals, last, snap, tire, part>>

NextLockstep ==
    \/ \E dt \in LockTimes : LockStep(dt)
    \/ \E input \in Inputs : LockApplyInput(input)

SpecLockstep == InitLockstep /\ [][NextLockstep]_vars

\* What a caller of getState() on instance r reads
Observed(r) == Deref(GetStateSim(sims[r]), sims[r].heap)

\* C7: two engines constructed alike and given the same applyInput and step
\* calls return equal getState() values after every call, and have executed
\* the same fixedUpdates; the objects they share are as they were
C7_RunToRun ==
    /\ Observed(1) = Observed(2)
    /\ hist[1].trace = hist[2].trace
    /\ sims[1].engine = sims[2].engine
    /\ globals = InitialGlobals

\* both engines went through several updates under a non-zero input and moved
C7_Witness ==
    /\ hist[1].updates >= 2 /\ hist[2].updates >= 2
    /\ hist[1].applied # DefaultInput
    /\ Observed(1).velocity # V3Zero
    /\ Observed(2).angularVelocity # V3Zero

(***************************************************************************)
(* PacejkaTire.calculate called directly (SpecTire).                       *)
(***************************************************************************)
\* vertical loads in N, slip angles in mrad, slip ratios in 1/1000
TireLoads == {-5000, -1, 0, 1, 4000}
SlipAngles == {-300, -50, 0, 50, 300}
SlipRatios == {-1000, -100, 0, 100, 1000}

InitTire ==
    /\ sims = [r \in {} |-> 0]
    /\ globals = InitialGlobals
    /\ hist = [r \in {} |-> 0]
    /\ last = [r \in {} |-> 0]
    /\ snap = NoSnap
    /\ part = NoPart
    /\ \E fz \in TireLoads : \E a \in SlipAngles : \E k \in SlipRatios :
          tire = [called |-> FALSE, verticalLoad |-> fz, slipAngle |-> a, slipRatio |-> k]

Calculate ==
    /\ ~tire.called
    /\ tire' = [tire EXCEPT !.called = TRUE] @@
               [result |-> PacejkaCalculate(tire.verticalLoad, tire.slipAngle, tire.slipRatio)]
    /\ UNCHANGED <<sims, globals, hist, last, snap, part>>

NextTire == Calculate

SpecTire == InitTire /\ [][NextTire]_vars

\* C10: for every verticalLoad <= 0 and every slipAngle and slipRatio,
\* calculate returns {fx: 0, fy: 0, mz: 0}
C10_NoLoadNoForce ==
    tire.called /\ tire.verticalLoad <= 0 =>
        tire.result = [fx |-> 0, fy |-> 0, mz |-> 0]

\* calculate was called with a negative load and non-zero slips
C10_Witness ==
    /\ tire.called /\ tire.verticalLoad < 0
    /\ tire.slipAngle # 0 /\ tire.slipRatio # 0
    /\ tire.result.fx = 0

(***************************************************************************)
(* A Transmission constructed from a gear table and driven on its own      *)
(* (SpecGearbox).  part holds the transmission, the last call and what     *)
(* the calls so far did to the gear.                                       *)
(***************************************************************************)
MaxShiftCalls == 6

\* Gear tables of 1, 3, 5 and 7 ratios (in 1/10)
GearTables == { <<35>>, <<35, 20, 14>>, <<35, 20, 14, 10, 8>>,
                <<35, 20, 14, 10, 8, 7, 6>> }

\* Engine speeds below 2500, between the thresholds and above 6000
ShiftRpms == {2000, 4000, 6500}

\* 1/60 s, 0.25 s and 0.5 s
ShiftTimes == {FIXED_TIMESTEP, TimeUnit \div 4, TimeUnit \div 2}

\* getRatio() reads no gear (neutral, reverse) or gears[currentGear - 1],
\* which is an entry of the table or undefined
RatioDefined(t) == t.currentGear \in {0, -1} \/ t.currentGear \in DOMAIN t.gears

InitGearbox ==
    /\ sims = [r \in {} |-> 0]
    /\ globals = InitialGlobals
    /\ hist = [r \in {} |-> 0]
    /\ last = [r \in {} |-> 0]
    /\ snap = NoSnap
    /\ tire = NoTire
    /\ \E gears \in GearTables :
          part = [ kind  |-> "Transmission",
                   trans |-> NewTransmission([gears |-> gears, finalDrive |-> 35]),
                   call  |-> NoCall,
                   calls |-> 0,
                   \* gear changes so far, the dt passed since the last one,
                   \* and the dt passed between the last two
                   changes |-> 0, since |-> 0, gap |-> 0 ]

\* trans.updateAutomatic(rpm, throttle, dt)
UpdateAutomaticCall(rpm, dt) ==
    /\ part.calls < MaxShiftCalls
    /\ \E t \in {UpdateAutomatic(part.trans, rpm, InU, dt)} :
          part' = [part EXCEPT
                      !.trans = t,
                      !.call  = [op |-> "updateAutomatic", rpm |-> rpm, dt |-> dt,
                                 before |-> part.trans],
                      !.calls = @ + 1,
                      !.changes = IF t.currentGear # part.trans.currentGear
                                  THEN @ + 1 ELSE @,
                      !.since = IF t.currentGear # part.trans.currentGear
                                THEN 0 ELSE @ + dt,
                      !.gap   = IF t.currentGear # part.trans.currentGear
                                THEN part.since + dt ELSE @]
    /\ UNCHANGED <<sims, globals, hist, last, snap, tire>>

NextGearbox == \E rpm \in ShiftRpms : \E dt \in ShiftTimes : UpdateAutomaticCall(rpm, dt)

SpecGearbox == InitGearbox /\ [][NextGearbox]_vars

\* C11 as stated: an upshift occurs exactly when the cooldown has expired,
\* rpm > 6000 and the gear is below the number of gears in the table; the
\* gear stays within 1..(number of gears) and getRatio() reads an existing
\* entry of the table
C11_GearWithinTable ==
    /\ part.call.op = "updateAutomatic" =>
          ( part.trans.currentGear = part.call.before.currentGear + 1
            <=> /\ part.call.before.shiftTimer - part.call.dt <= 0
                /\ part.call.rpm > 6000
                /\ part.call.before.currentGear < Len(part.trans.gears) )
    /\ part.trans.currentGear \in 1..Len(part.trans.gears)
    /\ RatioDefined(part.trans)

\* C12: a call changes the gear by at most one step, and between two gear
\* changes the dt values passed sum to at least 0.5 s
C12_ShiftCooldown ==
    /\ part.call.op = "updateAutomatic" =>
          part.trans.currentGear - part.call.before.currentGear \in {-1, 0, 1}
    /\ part.changes >= 2 => part.gap >= TimeUnit \div 2

\* an upshift, then calls at low rpm during the cooldown, then the downshift
\* on the call that brought the dt passed to 0.5 s
C12_Witness ==
    /\ part.changes = 2 /\ part.gap = TimeUnit \div 2
    /\ part.call.op = "updateAutomatic" /\ part.call.rpm < 2500
    /\ part.call.dt < TimeUnit \div 2
    /\ part.trans.currentGear = part.call.before.currentGear - 1


(***************************************************************************)
(* One engine whose vehicle stands on the flat ground, wheels in contact,  *)
(* and moves forward at a given speed (SpecSpeed).                         *)
(***************************************************************************)
\* The height at which tests/physics.test.ts places a grounded vehicle
GroundedHeight == (85 * PosU) \div 100

\* Forward speeds of 0, 10, 16, 20 and 30 m/s
ForwardSpeeds == {0, 10 * VelU, 16 * VelU, 20 * VelU, 30 * VelU}

\* One and two fixed timesteps
SpeedTimes == {FIXED_TIMESTEP, 2 * FIXED_TIMESTEP}

InitSpeed ==
    /\ \E v \in ForwardSpeeds :
          sims = [r \in {1} |->
                    [NewSim("Flat", GroundedHeight) EXCEPT !.vehicle.body.velocity.x = v]]
    /\ globals = InitialGlobals
    /\ hist = [r \in {1} |-> NewHist]
    /\ last = [r \in {1} |-> NoCall]
    /\ snap = NoSnap
    /\ tire = NoTire
    /\ part = NoPart

NextSpeed ==
    \/ \E dt \in SpeedTimes : Step(1, dt)
    \/ \E input \in Inputs : ApplyInput(1, input)

SpecSpeed == InitSpeed /\ [][NextSpeed]_vars

\* C13: after construction and after every call engine.rpm lies in
\* [idleRPM, maxRPM], also when the tick first set it to a wheel-coupled
\* value above maxRPM, and getState() reports an engineRPM in that range
C13_RpmInRange ==
    /\ sims[1].vehicle.engine.idleRPM <= sims[1].vehicle.engine.rpm
    /\ sims[1].vehicle.engine.rpm <= sims[1].vehicle.engine.maxRPM
    /\ GetStateSim(sims[1]).engineRPM >= sims[1].vehicle.engine.idleRPM
    /\ GetStateSim(sims[1]).engineRPM <= sims[1].vehicle.engine.maxRPM

\* the last tick coupled the engine to wheels turning faster than maxRPM
\* allows, with the throttle open, and left the engine at maxRPM
C13_Witness ==
    /\ Stepped /\ Len(last[1].logs) >= 1
    /\ last[1].logs[Len(last[1].logs)].coupledRPM > sims[1].vehicle.engine.maxRPM
    /\ last[1].logs[Len(last[1].logs)].inputs.throttle > 0
    /\ sims[1].vehicle.engine.rpm = sims[1].vehicle.engine.maxRPM


(***************************************************************************)
(* A Vehicle constructed from a config with any number of tire offsets and *)
(* updated on its own (SpecConfig).  part holds the vehicle, its heap      *)
(* arrays and whether the last update() threw.                             *)
(***************************************************************************)
MaxConfigTicks == 3

\* The four offsets of VehicleConfig and a third axle
SixOffsets == VehicleConfig.tires.offsets \o << Vec(0, 900, -200), Vec(0, -900, -200) >>

\* A config with the first n of these offsets
ConfigWith(n) == [VehicleConfig EXCEPT !.tires.offsets = SubSeq(SixOffsets, 1, n)]

\* update() reads this.tires[2].wheelSpeed and this.tires[3].wheelSpeed in
\* its first statement and tires[i], suspensions[i] for i = 0..3 in the
\* loop; reading a field of a missing element throws a TypeError
UpdateThrows(veh) ==
    \E i \in 1..4 : i \notin DOMAIN veh.tires \/ i \notin DOMAIN veh.suspensions

InitConfig ==
    /\ sims = [r \in {} |-> 0]
    /\ globals = InitialGlobals
    /\ hist = [r \in {} |-> 0]
    /\ last = [r \in {} |-> 0]
    /\ snap = NoSnap
    /\ tire = NoTire
    /\ \E n \in 0..Len(SixOffsets) :
          part = [ kind  |-> "Vehicle",
                   n     |-> n,
                   veh   |-> NewVehicle(ConfigWith(n)),
                   heap  |-> NewVehicleHeap(ConfigWith(n)),
                   ticks |-> 0,
                   threw |-> FALSE ]

\* vehicle.update(FIXED_TIMESTEP, input, new Environment())
ConfigUpdate(input) ==
    /\ part.ticks < MaxConfigTicks
    /\ IF UpdateThrows(part.veh)
       THEN \* the exception leaves update() before anything was written
            /\ part' = [part EXCEPT !.ticks = @ + 1, !.threw = TRUE]
            /\ UNCHANGED globals
       ELSE \E u \in {VehicleUpdate(part.veh, part.heap, FIXED_TIMESTEP, input,
                                    "Flat", globals)} :
               /\ part' = [part EXCEPT !.veh = u.veh, !.heap = u.heap,
                                       !.ticks = @ + 1, !.threw = FALSE]
               /\ globals' = u.globals
    /\ UNCHANGED <<sims, hist, last, snap, tire>>

NextConfig == \E input \in Inputs \cup {DefaultInput} : ConfigUpdate(input)

SpecConfig == InitConfig /\ [][NextConfig]_vars

\* C14: the constructor builds one tire, suspension and wheel transform per
\* offset whatever their number; update() throws when there are fewer than
\* 4 corners, leaving the vehicle as it was, and with more than 4 it runs
\* and leaves the corners after the fourth as constructed
C14_OffsetsNotChecked ==
    /\ Len(part.veh.tires) = part.n
    /\ Len(part.veh.suspensions) = part.n
    /\ Len(part.heap.wheelTransforms) = part.n
    /\ part.ticks > 0 => (part.threw <=> part.n < 4)
    /\ part.threw => /\ part.veh = NewVehicle(ConfigWith(part.n))
                     /\ part.heap = NewVehicleHeap(ConfigWith(part.n))
    /\ \A i \in 5..part.n :
          /\ part.veh.tires[i] = NewVehicle(ConfigWith(part.n)).tires[i]
          /\ part.veh.suspensions[i] = NewVehicle(ConfigWith(part.n)).suspensions[i]
          /\ part.heap.wheelTransforms[i] = NewVehicleHeap(ConfigWith(part.n)).wheelTransforms[i]

\* a vehicle built from three offsets, whose update() threw
C14_Witness ==
    /\ part.kind = "Vehicle" /\ part.n = 3 /\ part.ticks > 0 /\ part.threw
    /\ Len(part.veh.tires) = 3

\* a vehicle built from six offsets, whose first four corners were
\* simulated and whose third axle was not
C14_WitnessSixWheels ==
    /\ part.kind = "Vehicle" /\ part.n = 6 /\ part.ticks > 1 /\ ~part.threw
    /\ \A i \in 1..4 : part.veh.suspensions[i].compression # 0
    /\ \A i \in 5..6 : part.veh.suspensions[i].compression = 0


(***************************************************************************)
(* One engine whose parts are also called directly with dt = 0             *)
(* (SpecZeroDt).  last records the direct calls as it records the          *)
(* engine's.                                                               *)
(***************************************************************************)
\* What the model keeps of a vehicle whose body state has become NaN: such
\* a vehicle is not followed further
NonFiniteVehicle == [finite |-> FALSE]

VehicleFinite(sim) == sim.vehicle # NonFiniteVehicle

\* Frame times 0 and one fixed timestep
ZeroTimes == {0, FIXED_TIMESTEP}

\* Compression depths of -0.1 m, 0.1 m and 0.4 m, for the front left and
\* the rear right suspension
ZeroDepths == {-(PosU \div 10), PosU \div 10, (4 * PosU) \div 10}
ZeroCorners == {1, 4}

\* engine.step(dt) on a vehicle that is still finite
ZeroStep(dt) == VehicleFinite(sims[1]) /\ Step(1, dt)

\* the bookkeeping of a direct call
DirectCall(op, result) ==
    /\ hist' = [hist EXCEPT ![1].calls = @ + 1]
    /\ last' = [last EXCEPT ![1] = [op |-> op, dt |-> 0, before |-> sims[1]] @@ result]

\* vehicle.suspensions[c - 1].update(depth, 0)
SuspensionZero(c, depth) ==
    /\ hist[1].calls < MaxCalls /\ VehicleFinite(sims[1])
    /\ \E res \in {SuspensionUpdate(sims[1].vehicle.suspensions[c], depth, 0)} :
          /\ sims' = [sims EXCEPT ![1].vehicle.suspensions[c] = res.susp]
          /\ DirectCall("Suspension.update",
                        [corner |-> c, depth |-> depth, class |-> res.class])
    /\ UNCHANGED <<globals, snap, tire, part>>

\* vehicle.engine.update(0, throttle, 0)
EngineZero(throttle) ==
    /\ hist[1].calls < MaxCalls /\ VehicleFinite(sims[1])
    /\ \E res \in {EngineUpdate(sims[1].vehicle.engine, 0, throttle, 0)} :
          /\ sims' = [sims EXCEPT ![1].vehicle.engine = res.engine]
          /\ DirectCall("Engine.update", [torque |-> res.torque])
    /\ UNCHANGED <<globals, snap, tire, part>>

\* vehicle.trans.updateAutomatic(rpm, 1, 0)
ShiftZero(rpm) ==
    /\ hist[1].calls < MaxCalls /\ VehicleFinite(sims[1])
    /\ sims' = [sims EXCEPT ![1].vehicle.trans = UpdateAutomatic(@, rpm, InU, 0)]
    /\ DirectCall("Transmission.updateAutomatic", [rpm |-> rpm])
    /\ UNCHANGED <<globals, snap, tire, part>>

\* vehicle.body.integrate(0)
IntegrateZero ==
    /\ hist[1].calls < MaxCalls /\ VehicleFinite(sims[1])
    /\ sims' = [sims EXCEPT ![1].vehicle.body = Integrate(@, 0)]
    /\ DirectCall("RigidBody.integrate", [finite |-> TRUE])
    /\ UNCHANGED <<globals, snap, tire, part>>

\* vehicle.update(0, input, env) with the engine's current input
VehicleZero ==
    /\ hist[1].calls < MaxCalls /\ VehicleFinite(sims[1])
    /\ \E u \in {VehicleUpdate(sims[1].vehicle, sims[1].heap, 0,
                               sims[1].heap[sims[1].engine.currentInput.ref],
                               sims[1].env, globals)} :
          /\ sims' = [sims EXCEPT ![1] =
                         IF u.finite THEN [@ EXCEPT !.vehicle = u.veh, !.heap = u.heap]
                         ELSE [@ EXCEPT !.vehicle = NonFiniteVehicle]]
          /\ globals' = u.globals
          /\ DirectCall("Vehicle.update", [finite |-> u.finite, corners |-> u.log.corners])
    /\ UNCHANGED <<snap, tire, part>>

NextZeroDt ==
    \/ \E dt \in ZeroTimes : ZeroStep(dt)
    \/ \E input \in Inputs : ApplyInput(1, input)
    \/ \E c \in ZeroCorners : \E depth \in ZeroDepths : SuspensionZero(c, depth)
    \/ \E throttle \in {0, InU} : EngineZero(throttle)
    \/ \E rpm \in ShiftRpms : ShiftZero(rpm)
    \/ IntegrateZero
    \/ VehicleZero

SpecZeroDt == Init /\ [][NextZeroDt]_vars

\* The class of the number Suspension.update(depth, 0) returns on a
\* suspension whose compression was prev, read from the code
ZeroDtClass(depth, prev) ==
    IF depth <= 0 THEN "finite"
    ELSE IF depth > prev THEN "+Infinity"
    ELSE IF depth < prev THEN "-Infinity"
    ELSE "NaN"

\* C15 as stated: with dt = 0, step executes no fixedUpdate and changes no
\* state, and every other call returns and leaves finite numbers only
C15_ZeroDtAbsorbed ==
    /\ last[1].op = "step" /\ last[1].dt = 0 =>
          last[1].logs = <<>> /\ sims[1] = last[1].before
    /\ last[1].op = "Suspension.update" => last[1].class = "finite"
    /\ last[1].op = "Vehicle.update" => last[1].finite
    /\ VehicleFinite(sims[1])

\* C15, amended: with dt = 0, step executes no fixedUpdate and changes no
\* state; Engine.update leaves rpm, updateAutomatic leaves the timer unless
\* it shifts, integrate leaves position and velocity; Suspension.update
\* returns a finite number (0) only for compression <= 0 and Infinity,
\* -Infinity or NaN otherwise; Vehicle.update leaves a finite state unless
\* some corner is compressed further than on the call before
C15_ZeroDtSuspensionDivides ==
    /\ last[1].op = "step" /\ last[1].dt = 0 =>
          last[1].logs = <<>> /\ sims[1] = last[1].before
    /\ last[1].op = "Engine.update" =>
          sims[1].vehicle.engine.rpm = last[1].before.vehicle.engine.rpm
    /\ last[1].op = "Transmission.updateAutomatic" =>
          \/ sims[1].vehicle.trans = last[1].before.vehicle.trans
          \/ /\ sims[1].vehicle.trans.shiftTimer = TimeUnit \div 2
             /\ last[1].before.vehicle.trans.shiftTimer <= 0
    /\ last[1].op = "RigidBody.integrate" =>
          /\ sims[1].vehicle.body.position = last[1].before.vehicle.body.position
          /\ sims[1].vehicle.body.velocity = last[1].before.vehicle.body.velocity
    /\ last[1].op = "Suspension.update" =>
          last[1].class =
              ZeroDtClass(last[1].depth,
                          last[1].before.vehicle.suspensions[last[1].corner].compression)
    /\ last[1].op = "Vehicle.update" =>
          /\ last[1].finite <=>
                \A c \in 1..4 :
                    ZeroDtClass(last[1].corners[c].compression,
                                last[1].before.vehicle.suspensions[c].compression)
                        # "+Infinity"
          /\ last[1].finite = VehicleFinite(sims[1])
          /\ last[1].finite =>
                /\ sims[1].vehicle.body.position = last[1].before.vehicle.body.position
                /\ sims[1].vehicle.body.velocity = last[1].before.vehicle.body.velocity

\* after a tick on the ground, Vehicle.update(0) met a corner compressed
\* further than before and left a body state that is not finite
C15_Witness ==
    /\ last[1].op = "Vehicle.update" /\ ~last[1].finite
    /\ hist[1].ticks > 0
    /\ ~VehicleFinite(sims[1])

\* Suspension.update(0.4 m, 0) on a suspension already compressed by 0.4 m
\* returned NaN
C15_WitnessNaN ==
    /\ last[1].op = "Suspension.update" /\ last[1].depth > 0
    /\ last[1].class = "NaN"


(***************************************************************************)
(* The skid intensities (Spec)                                             *)
(***************************************************************************)
\* the four skid intensities of instance r's vehicle
WheelSkids(r) == sims[r].heap[sims[r].vehicle.wheelSkids.ref]

\* C16: initially and after every call, each of the 4 wheelSkids values
\* lies in [0, 1]
C16_SkidsInUnitRange ==
    /\ Len(WheelSkids(1)) = 4
    /\ \A c \in 1..4 : WheelSkids(1)[c] >= 0 /\ WheelSkids(1)[c] <= InU

\* a tick whose tire force exceeded twice the friction limit on some corner,
\* so that the estimate (totalF - maxF) / maxF was above 1 and was stored as 1
C16_Witness ==
    /\ last[1].op = "step" /\ Len(last[1].logs) > 0
    /\ \E c \in 1..4 :
          LET corner == last[1].logs[Len(last[1].logs)].corners[c]
          IN  /\ corner.Fz > 0
              /\ corner.tire.totalF > 2 * corner.tire.maxF
              /\ WheelSkids(1)[c] = InU


(***************************************************************************)
(* Two engines given the same calls, the second one's consumer writing     *)
(* into the arrays that getState() hands out (SpecTamper)                  *)
(***************************************************************************)
\* Skid values a consumer writes: in range and out of range
TamperSkids == { <<InU, InU, InU, InU>>, <<-InU, 5 * InU, 0, InU \div 2>> }

\* Wheel positions a consumer writes
TamperPositions == { Vec(0, 0, 0), Vec(7 * PosU, -3 * PosU, 100 * PosU) }

\* const s = engine2.getState(); s.wheelSkids[c] = ...; s.wheelTransforms[c]
\* = ...: the state object's arrays are the vehicle's own
Tamper(skids, position) ==
    /\ hist[1].calls < MaxLockCalls
    /\ \E state \in {GetStateSim(sims[2])} :
          /\ sims' = [sims EXCEPT
                ![2].heap[state.wheelSkids.ref] = skids,
                ![2].heap[state.wheelTransforms.ref] =
                    [c \in 1..4 |-> [position |-> position, orientation |-> QIdentity]]]
          /\ last' = [last EXCEPT ![2] =
                [op |-> "tamper", ticks |-> hist[2].ticks,
                 \* the vehicles' stored values differ after the write
                 differs |-> skids # WheelSkids(1)]]
    /\ hist' = [r \in {1, 2} |-> [hist[r] EXCEPT !.calls = @ + 1]]
    /\ UNCHANGED <<globals, snap, tire, part>>

NextTamper ==
    \/ \E dt \in LockTimes : LockStep(dt)
    \/ \E input \in Inputs : LockApplyInput(input)
    \/ \E skids \in TamperSkids : \E position \in TamperPositions :
          Tamper(skids, position)

SpecTamper == InitLockstep /\ [][NextTamper]_vars

\* The state the dynamics carry from tick to tick
Dynamic(r) ==
    [ position        |-> sims[r].vehicle.body.position,
      velocity        |-> sims[r].vehicle.body.velocity,
      orientation     |-> sims[r].vehicle.body.orientation,
      angularVelocity |-> sims[r].vehicle.body.angularVelocity,
      wheelSpeeds     |-> [c \in 1..4 |-> sims[r].vehicle.tires[c].wheelSpeed],
      suspensions     |-> sims[r].vehicle.suspensions,
      rpm             |-> sims[r].vehicle.engine.rpm,
      gear            |-> sims[r].vehicle.trans.currentGear ]

\* C17: what is stored in wheelSkids and wheelTransforms, a consumer's
\* writes through getState() included, never reaches the dynamics: two
\* vehicles given the same inputs stay equal in position, velocity,
\* orientation, angular velocity, wheel speeds, rpm and gear
C17_SkidsOutputOnly ==
    /\ Dynamic(1) = Dynamic(2)
    /\ hist[1].trace = hist[2].trace

\* the stored values were made to differ, and the vehicles then went
\* through ticks and moved
C17_Witness ==
    /\ last[2].op = "tamper" /\ last[2].differs
    /\ hist[2].ticks >= last[2].ticks + 2
    /\ sims[2].vehicle.body.velocity # V3Zero
    /\ hist[2].applied # DefaultInput


(***************************************************************************)
(* The runs of tests/physics.test.ts: one engine stepped by one fixed      *)
(* timestep at a time, in free fall with zero input, or on the flat        *)
(* ground with full throttle applied before every step (SpecRun)           *)
(***************************************************************************)
\* Ticks of a free fall and of a throttle run that are followed
MaxFallTicks == 120
MaxDriveTicks == 60

\* The test loops run 60 times; toBeCloseTo(., 1) accepts differences below
\* 0.05 m/s, and the throttle test wants more than 0.1 m/s
TestTicks == 60
TestTolerance == (5 * VelU) \div 100
TestSpeed == VelU \div 10

\* The static ride height of the vehicle: the mounts' depth below the body
\* + rest length + radius, less the compression that carries a quarter of
\* the weight
RideHeight ==
    VehicleConfig.suspension.restLength + VehicleConfig.tires.radius
    - VehicleConfig.tires.offsets[1].z * (PosU \div LenU)
    - ((VehicleConfig.mass * 981 * (PosU \div 100)) \div (4 * VehicleConfig.suspension.stiffness))

Runs == { [scenario |-> "freefall", env |-> "EmptySpace", z0 |-> (6 * PosU) \div 10],
          [scenario |-> "throttle", env |-> "Flat", z0 |-> GroundedHeight],
          [scenario |-> "throttle", env |-> "Flat", z0 |-> RideHeight] }

InitRun ==
    /\ \E run \in Runs :
          /\ sims = [r \in {1} |-> NewSim(run.env, run.z0)]
          /\ part = [kind |-> "Run", scenario |-> run.scenario,
                     pc |-> IF run.scenario = "throttle" THEN "applyInput" ELSE "step",
                     \* every step so far ran one fixedUpdate, every corner
                     \* so far was uncompressed, some corner carried load
                     oneEach |-> TRUE, airborne |-> TRUE, contact |-> FALSE]
    /\ globals = InitialGlobals
    /\ hist = [r \in {1} |-> NewHist]
    /\ last = [r \in {1} |-> NoCall]
    /\ snap = NoSnap
    /\ tire = NoTire

\* engine.applyInput({ throttle: 1.0, brake: 0, steering: 0 })
RunApplyInput ==
    /\ part.kind = "Run" /\ part.pc = "applyInput"
    /\ hist[1].ticks < MaxDriveTicks
    /\ sims' = [sims EXCEPT ![1] = ApplyInputSim(sims[1], Input(InU, 0, 0))]
    /\ hist' = [hist EXCEPT ![1].calls = @ + 1, ![1].applied = Input(InU, 0, 0),
                            ![1].pending = Append(@, Input(InU, 0, 0))]
    /\ last' = [last EXCEPT ![1] = [op |-> "applyInput", before |-> sims[1]]]
    /\ part' = [part EXCEPT !.pc = "step"]
    /\ UNCHANGED <<globals, snap, tire>>

\* engine.step(fixedDt)
RunStep ==
    /\ part.kind = "Run" /\ part.pc = "step"
    /\ hist[1].ticks < (IF part.scenario = "throttle" THEN MaxDriveTicks ELSE MaxFallTicks)
    /\ \E s \in {StepSim(sims[1], FIXED_TIMESTEP, globals)} :
           /\ sims' = [sims EXCEPT ![1] = s.sim]
           /\ globals' = s.globals
           /\ hist' = [hist EXCEPT ![1] = HistAfterStep(hist[1], FIXED_TIMESTEP, s.logs)]
           /\ last' = [last EXCEPT ![1] = [op |-> "step", dt |-> FIXED_TIMESTEP,
                                           logs |-> s.logs]]
           /\ part' = [part EXCEPT
                 !.pc = IF part.scenario = "throttle" THEN "applyInput" ELSE "step",
                 !.oneEach = @ /\ Len(s.logs) = 1,
                 !.airborne = @ /\ \A n \in 1..Len(s.logs) : \A c \in 1..4 :
                                     s.logs[n].corners[c].compression <= 0,
                 !.contact = @ \/ \E n \in 1..Len(s.logs) : \E c \in 1..4 :
                                     s.logs[n].corners[c].Fz > 0]
    /\ UNCHANGED <<snap, tire>>

NextRun ==
    \/ RunApplyInput
    \/ RunStep

SpecRun == InitRun /\ [][NextRun]_vars

\* -9.81 x n x FIXED_TIMESTEP in velocity units
FreefallVelocity(n) == -((981 * n * (VelU \div 100)) \div SIMULATION_RATE)

\* C18 as stated, read with the test's tolerance: in free fall with zero
\* input, after any number N of ticks velocity.z is -9.81 x N x
\* FIXED_TIMESTEP to within 0.05 m/s
C18_FreefallAnyTicks ==
    part.scenario = "freefall" =>
        Abs(sims[1].vehicle.body.velocity.z - FreefallVelocity(hist[1].ticks))
            < TestTolerance

\* C18, amended: in free fall with zero input no corner is ever compressed,
\* N calls of step(FIXED_TIMESTEP) run N fixedUpdates, one per call, and
\* the air drag makes the fall slower than gravity alone: velocity.z is
\* never below -9.81 x N x FIXED_TIMESTEP, and is within 0.05 m/s of it for
\* N up to the test's 60 ticks
C18_FreefallWithDrag ==
    part.scenario = "freefall" =>
        /\ part.airborne /\ part.oneEach
        /\ hist[1].ticks = hist[1].steps
        /\ sims[1].vehicle.body.velocity.z >= FreefallVelocity(hist[1].ticks)
        /\ hist[1].ticks <= TestTicks =>
              sims[1].vehicle.body.velocity.z
                  < FreefallVelocity(hist[1].ticks) + TestTolerance
        /\ sims[1].vehicle.body.velocity.x = 0 /\ sims[1].vehicle.body.velocity.y = 0

\* the end of the test's free fall: 60 ticks, slower than -9.81 m/s by less
\* than the tolerance
C18_Witness ==
    /\ part.scenario = "freefall" /\ hist[1].ticks = TestTicks
    /\ sims[1].vehicle.body.velocity.z > FreefallVelocity(TestTicks)
    /\ sims[1].vehicle.body.velocity.z < FreefallVelocity(TestTicks) + TestTolerance

\* C19: on the flat ground with wheels in contact, throttle 1 applied before
\* each of 60 ticks raises velocity.x from 0 to more than 0.1 m/s
C19_ThrottleResponse ==
    part.scenario = "throttle" =>
        /\ hist[1].ticks = 0 => sims[1].vehicle.body.velocity.x = 0
        /\ hist[1].ticks = TestTicks =>
              /\ part.contact
              /\ sims[1].vehicle.body.velocity.x > TestSpeed

\* the end of the test's throttle run, started at the test's height of
\* 0.85 m
C19_Witness ==
    /\ part.scenario = "throttle" /\ hist[1].ticks = TestTicks
    /\ hist[1].applied = Input(InU, 0, 0)
    /\ part.contact /\ part.oneEach
    /\ sims[1].vehicle.body.velocity.x > TestSpeed


(***************************************************************************)
(* The suspension force on the body (Spec)                                 *)
(***************************************************************************)
\* C20: on every tick and for every corner the force the suspension adds to
\* the body is Fz along body-up with Fz >= 0: Fz is the suspension's force
\* where that is positive, and 0 where the corner's compression is <= 0 and
\* where rebound damping makes stiffness x compression + damping x
\* compression velocity negative
C20_SuspensionNeverPulls ==
    last[1].op = "step" =>
        \A n \in 1..Len(last[1].logs) : \A c \in 1..4 :
            LET corner == last[1].logs[n].corners[c]
            IN  /\ corner.Fz >= 0
                /\ corner.suspApplied = V3Scale(corner.bodyUp, corner.Fz, DirU)
                /\ corner.compression <= 0 => corner.Fz = 0
                /\ corner.suspForce < 0 => corner.Fz = 0
                /\ corner.suspForce >= 0 => corner.Fz = corner.suspForce

\* a tick on which a compressed corner rebounded fast enough for the
\* suspension's force to be negative, and nothing was applied
C20_Witness ==
    /\ last[1].op = "step" /\ Len(last[1].logs) > 0
    /\ \E n \in 1..Len(last[1].logs) : \E c \in 1..4 :
          /\ last[1].logs[n].corners[c].compression > 0
          /\ last[1].logs[n].corners[c].suspForce < 0
          /\ last[1].logs[n].corners[c].suspApplied = V3Zero


(***************************************************************************)
(* The friction limit of the tire force (SpecSpeed)                        *)
(***************************************************************************)
\* What the fixed-point arithmetic can be off by on a force of size f: the
\* scale factor is kept in 1/10000 and the square root of large forces in
\* steps of 8 N
CapSlack(f) == f \div 1000 + 16

\* C21: on every tick and for every grounded corner the tire force applied
\* to the body is no larger than 1.5 x Fz; a force within the limit is
\* applied as it is, and a force beyond it has both components scaled by
\* the same factor, onto the limit
C21_FrictionCap ==
    last[1].op = "step" =>
        \A n \in 1..Len(last[1].logs) : \A c \in 1..4 :
            LET corner == last[1].logs[n].corners[c]
                t == corner.tire
            IN  corner.Fz > 0 =>
                  /\ t.maxF = Quot(corner.Fz * 15, 10)
                  /\ Hypot(t.tract, t.fy) <= t.maxF + CapSlack(t.maxF)
                  /\ V3Magnitude(corner.tireForce, 8) <= t.maxF + CapSlack(t.maxF)
                  /\ t.totalF <= t.maxF => t.tract = t.rawTract /\ t.fy = t.rawFy
                  /\ t.totalF > t.maxF =>
                        /\ Abs(Hypot(t.tract, t.fy) - t.maxF) <= CapSlack(t.maxF)
                        /\ Sign(t.tract) * Sign(t.rawTract) >= 0
                        /\ Sign(t.fy) * Sign(t.rawFy) >= 0
                        /\ Abs(t.rawTract) >= 200 /\ Abs(t.rawFy) >= 200 =>
                              Abs(MulDiv(t.tract, 10000, t.rawTract)
                                  - MulDiv(t.fy, 10000, t.rawFy)) <= 100

\* a tick on which a corner's tractive and lateral force together exceeded
\* the limit and were both scaled down
C21_Witness ==
    /\ last[1].op = "step" /\ Len(last[1].logs) > 0
    /\ \E n \in 1..Len(last[1].logs) : \E c \in 1..4 :
          LET corner == last[1].logs[n].corners[c]
          IN  /\ corner.Fz > 0
              /\ corner.tire.totalF > corner.tire.maxF
              /\ Abs(corner.tire.rawTract) >= 200 /\ Abs(corner.tire.rawFy) >= 200
              /\ Abs(corner.tire.tract) < Abs(corner.tire.rawTract)
              /\ Abs(corner.tire.fy) < Abs(corner.tire.rawFy)


(***************************************************************************)
(* One RigidBody called directly (SpecBody): forces and torques are added  *)
(* and the body is integrated, in any order.  part holds the body, the     *)
(* last call and, as ghosts, what was added since the last integrate.      *)
(***************************************************************************)
MaxBodyCalls == 3

\* Masses in kg and inertia tensors in kg m^2 handed to the constructor,
\* degenerate ones among them
BodyMasses == {1500, 100, 0, -5}
BodyInertias == {Vec(1000, 1000, 1000), Vec(0, 1000, -1)}

\* Velocities (m/s) and angular velocities (rad/s) the public fields are set to
BodyVelocities == {V3Zero, Vec(2 * VelU, 0, -VelU)}
BodySpins == {V3Zero, Vec(AngU, -AngU, AngU \div 2)}

\* Forces in N, points in body-position units, torques in N mm
BodyForcesAdded == {Vec(3000, 0, -14715), Vec(0, -600, 900)}
BodyPoints == {Vec(PosU, PosU \div 2, 0), Vec(-PosU, 0, -(PosU \div 5))}
BodyTorques == {Vec(2000000, -1000000, 500000)}
BodyTimes == {0, FIXED_TIMESTEP, 2 * FIXED_TIMESTEP}

InitBody ==
    /\ \E mass \in BodyMasses : \E inertia \in BodyInertias :
       \E velocity \in BodyVelocities : \E spin \in BodySpins :
          part = [ kind |-> "Body", mass |-> mass, inertia |-> inertia,
                   body |-> [NewRigidBody(mass, inertia) EXCEPT
                                !.velocity = velocity, !.angularVelocity = spin],
                   op |-> "new", dt |-> 0, calls |-> 0, integrations |-> 0,
                   before |-> NewRigidBody(mass, inertia),
                   \* the velocity the body started with, and the forces and
                   \* torques added since the last integrate
                   velocity0 |-> velocity,
                   pendingForce |-> V3Zero, pendingTorque |-> V3Zero, added |-> 0,
                   \* the same ghosts as they were before the last call
                   hadForce |-> V3Zero, hadTorque |-> V3Zero, hadAdded |-> 0 ]
    /\ sims = [r \in {1} |-> NewSim("Flat", GroundedHeight)]
    /\ globals = InitialGlobals
    /\ hist = [r \in {1} |-> NewHist]
    /\ last = [r \in {1} |-> NoCall]
    /\ snap = NoSnap
    /\ tire = NoTire

\* the bookkeeping of a call that leaves body1 and has added force and torque
BodyCall(op, dt, body1, force, torque) ==
    /\ part.kind = "Body" /\ part.calls < MaxBodyCalls
    /\ part' = [part EXCEPT
          !.body = body1, !.op = op, !.dt = dt, !.calls = @ + 1,
          !.before = part.body,
          !.integrations = IF op = "integrate" THEN @ + 1 ELSE @,
          !.hadForce = part.pendingForce, !.hadTorque = part.pendingTorque,
          !.hadAdded = part.added,
          !.pendingForce = IF op = "integrate" THEN V3Zero ELSE V3Add(@, force),
          !.pendingTorque = IF op = "integrate" THEN V3Zero ELSE V3Add(@, torque),
          !.added = IF op = "integrate" THEN 0 ELSE @ + 1]
    /\ UNCHANGED <<sims, globals, hist, last, snap, tire>>

\* body.addForce(force)
BodyAddForce(force) ==
    BodyCall("addForce", 0, AddForce(part.body, force), force, V3Zero)

\* body.addForceAtPoint(force, body.position + offset)
BodyAddForceAtPoint(force, offset) ==
    BodyCall("addForceAtPoint", 0,
             AddForceAtPoint(part.body, force, V3Add(part.body.position, offset)),
             force, V3Cross(V3Scale(offset, LenU, PosU), force))

\* body.addTorque(torque)
BodyAddTorque(torque) ==
    BodyCall("addTorque", 0, AddTorque(part.body, torque), V3Zero, torque)

\* body.integrate(dt)
BodyIntegrate(dt) ==
    BodyCall("integrate", dt, Integrate(part.body, dt), V3Zero, V3Zero)

NextBody ==
    \/ \E force \in BodyForcesAdded : BodyAddForce(force)
    \/ \E force \in BodyForcesAdded : \E offset \in BodyPoints :
          BodyAddForceAtPoint(force, offset)
    \/ \E torque \in BodyTorques : BodyAddTorque(torque)
    \/ \E dt \in BodyTimes : BodyIntegrate(dt)

SpecBody == InitBody /\ [][NextBody]_vars

\* v + (force x inverseMass) x dt for a body of a positive mass
VelocityAfter(v, force, mass, dt) ==
    V3Add(v, V3Scale(V3Scale(force, LenU, mass), dt * (VelU \div LenU), TimeUnit))

\* C22: after every integrate() both accumulators are zero; the velocity
\* it leaves depends on the forces added since the integrate before and on
\* no earlier ones, and with nothing added since then the velocity is as
\* it was
C22_AccumulatorsCleared ==
    part.op = "integrate" =>
        /\ part.body.forceAccum = V3Zero /\ part.body.torqueAccum = V3Zero
        /\ part.mass > 0 =>
              part.body.velocity =
                  VelocityAfter(part.before.velocity, part.hadForce, part.mass, part.dt)
        /\ part.hadAdded = 0 => part.body.velocity = part.before.velocity

\* a second integrate, with a time step, directly after one that had a
\* force to integrate and changed the velocity
C22_Witness ==
    /\ part.op = "integrate" /\ part.integrations >= 2 /\ part.dt > 0
    /\ part.hadAdded = 0 /\ part.mass > 0
    /\ part.body.velocity = part.before.velocity
    /\ part.body.velocity # part.velocity0

\* C23: a body constructed with mass <= 0 has inverseMass 0 and keeps its
\* linear velocity whatever is added and integrated; an inertia component
\* <= 0 gives inverseInertia 0 on that axis, and no integrate increases the
\* angular velocity about that axis; the inverses are quotients by
\* non-zero numbers
C23_DegenerateMass ==
    /\ part.body.inverseMass.den # 0
    /\ \A axis \in {"x", "y", "z"} : part.body.inverseInertia[axis].den # 0
    /\ part.mass <= 0 =>
          /\ part.body.inverseMass.num = 0
          /\ part.body.velocity = part.velocity0
    /\ \A axis \in {"x", "y", "z"} :
          part.inertia[axis] <= 0 =>
              /\ part.body.inverseInertia[axis].num = 0
              /\ Abs(part.body.angularVelocity[axis])
                     <= Abs(part.before.angularVelocity[axis])
                 \/ part.op = "new"

\* a body of mass -5 and inertia (0, 1000, -1) that was given a force off
\* its centre and a torque and was integrated over a time step: it turned
\* about y alone
C23_Witness ==
    /\ part.mass < 0 /\ part.inertia.x = 0 /\ part.inertia.z < 0
    /\ part.op = "integrate" /\ part.dt > 0
    /\ part.hadForce # V3Zero /\ part.hadTorque.x # 0 /\ part.hadTorque.z # 0
    /\ part.body.velocity = part.velocity0
    /\ part.body.angularVelocity.y # part.before.angularVelocity.y

\* C24: integrate(dt) leaves v' = v + (forceAccum x inverseMass) x dt and
\* p' = p + v' x dt, the position moved by the new velocity
C24_SemiImplicitEuler ==
    part.op = "integrate" =>
        /\ part.mass > 0 =>
              part.body.velocity =
                  VelocityAfter(part.before.velocity, part.before.forceAccum,
                                part.mass, part.dt)
        /\ part.body.position =
              V3Add(part.before.position,
                    V3Scale(part.body.velocity, part.dt * (PosU \div VelU), TimeUnit))

\* an integrate over a time step that changed the velocity, so that moving
\* by the old velocity would have left another position
C24_Witness ==
    /\ part.op = "integrate" /\ part.dt > 0
    /\ part.body.velocity # part.before.velocity
    /\ part.body.position #
          V3Add(part.before.position,
                V3Scale(part.before.velocity, part.dt * (PosU \div VelU), TimeUnit))
    /\ part.body.position # part.before.position


(***************************************************************************)
(* The drivetrain part of a tick (SpecSpeed)                               *)
(***************************************************************************)
\* getRatio() with the given gear engaged
RatioInGear(gear) == GetRatio([sims[1].vehicle.trans EXCEPT !.currentGear = gear])

\* the ticks of the last step
LastTicks == IF last[1].op = "step" THEN last[1].logs ELSE <<>>

\* the shift is evaluated on the wheel-coupled rpm and engine.update returns
\* the torque at that rpm
ShiftThenEngine(tick) ==
    /\ tick.gearAfter \in {tick.gearBefore - 1, tick.gearBefore, tick.gearBefore + 1}
    /\ tick.gearAfter > tick.gearBefore => tick.coupledRPM > 6000
    /\ tick.gearAfter < tick.gearBefore => tick.coupledRPM < 2500
    /\ tick.engineTorque =
          Quot(GetTorqueCurve(sims[1].vehicle.engine, tick.coupledRPM)
                   * tick.inputs.throttle, InU)

\* C25 as stated: the shift is evaluated first, then engine.update, and the
\* wheel torque is engineTorque x ratio / 2 with the ratio of the gear in
\* effect after the tick's shift evaluation
C25_TorqueWithNewRatio ==
    \A n \in 1..Len(LastTicks) :
        /\ ShiftThenEngine(LastTicks[n])
        /\ LastTicks[n].wheelTorque =
              Quot(LastTicks[n].engineTorque * RatioInGear(LastTicks[n].gearAfter), 2 * 100)

\* C25, amended: the shift is evaluated first, then engine.update, and the
\* wheel torque is engineTorque x ratio / 2 with the ratio read before the
\* shift evaluation: on a tick that changes the gear the torque still has
\* the old gear's ratio, and the new gear's ratio is used from the next
\* tick on
C25_TorqueWithRatioBeforeShift ==
    \A n \in 1..Len(LastTicks) :
        /\ ShiftThenEngine(LastTicks[n])
        /\ LastTicks[n].wheelTorque =
              Quot(LastTicks[n].engineTorque * RatioInGear(LastTicks[n].gearBefore), 2 * 100)
        /\ n > 1 => /\ LastTicks[n].gearBefore = LastTicks[n - 1].gearAfter
                    /\ LastTicks[n].ratio = RatioInGear(LastTicks[n - 1].gearAfter)

\* a step of two ticks under throttle whose first tick shifted up with the
\* engine delivering torque: that tick's wheel torque has the first gear's
\* ratio, the next one's the second gear's
C25_Witness ==
    /\ Len(LastTicks) = 2
    /\ LastTicks[1].gearAfter = LastTicks[1].gearBefore + 1
    /\ LastTicks[1].engineTorque > 0 /\ LastTicks[2].engineTorque > 0
    /\ LastTicks[1].wheelTorque #
          Quot(LastTicks[1].engineTorque * RatioInGear(LastTicks[1].gearAfter), 2 * 100)
    /\ LastTicks[2].wheelTorque =
          Quot(LastTicks[2].engineTorque * RatioInGear(LastTicks[1].gearAfter), 2 * 100)


(***************************************************************************)
(* One engine whose vehicle stands on the flat ground and slides, forward  *)
(* and sideways (SpecSlide)                                                *)
(***************************************************************************)
\* Forward speeds of 0, 0.05, 0.1, just above 0.1 and 10 m/s; sideways
\* speeds of 0, 5 and -20 m/s
SlideForward == {0, VelU \div 20, VelU \div 10, VelU \div 10 + 1, 10 * VelU}
SlideSideways == {0, 5 * VelU, -20 * VelU}

InitSlide ==
    /\ \E vx \in SlideForward : \E vy \in SlideSideways :
          sims = [r \in {1} |->
                    [NewSim("Flat", GroundedHeight) EXCEPT
                        !.vehicle.body.velocity.x = vx, !.vehicle.body.velocity.y = vy]]
    /\ globals = InitialGlobals
    /\ hist = [r \in {1} |-> NewHist]
    /\ last = [r \in {1} |-> NoCall]
    /\ snap = NoSnap
    /\ tire = NoTire
    /\ part = NoPart

SpecSlide == InitSlide /\ [][NextSpeed]_vars

\* the skid intensity the friction limit alone gives
ExcessSkid(t) ==
    IF t.totalF > t.maxF THEN Min(InU, MulDiv(t.totalF - t.maxF, InU, t.maxF)) ELSE 0

\* C26: at a grounded corner with |vLong| <= 0.1 m/s the slip angle is 0,
\* the lateral tire force is 0 and the skid intensity is what the friction
\* limit alone gives, whatever the lateral hub velocity; with |vLong| > 0.1
\* the slip angle is atan2(vLat, |vLong|), strictly inside (-pi/2, pi/2)
C26_SlipAngleDeadband ==
    \A n \in 1..Len(LastTicks) : \A c \in 1..4 :
        LET corner == LastTicks[n].corners[c]
            t == corner.tire
        IN  corner.Fz > 0 =>
              /\ Abs(t.vLong) <= VelU \div 10 =>
                    /\ t.alpha = 0
                    /\ t.rawFy = 0 /\ t.fy = 0
                    /\ corner.skidAfter = ExcessSkid(t)
              /\ Abs(t.vLong) > VelU \div 10 =>
                    /\ t.alpha = Atan2Pos(t.vLat, Abs(t.vLong))
                    /\ 2 * Abs(t.alpha) < Pi

\* a grounded corner sliding sideways at 5 m/s or more while moving forward
\* at no more than 0.1 m/s, and not standing still: no lateral force
C26_Witness ==
    \E n \in 1..Len(LastTicks) : \E c \in 1..4 :
        LET corner == LastTicks[n].corners[c]
        IN  /\ corner.Fz > 0
            /\ corner.tire.vLong # 0 /\ Abs(corner.tire.vLong) <= VelU \div 10
            /\ Abs(corner.tire.vLat) >= 5 * VelU
            /\ corner.tire.fy = 0


(***************************************************************************)
(* One Engine called directly (SpecEngine): rpm is assigned as the         *)
(* vehicle's wheel coupling assigns it, and getTorqueCurve and update are  *)
(* called                                                                  *)
(***************************************************************************)
MaxEngineCalls == 3

\* Engine configurations: the vehicle's, one whose peak torque is below the
\* floor of 50 N m, and one whose peak lies at the top of its range
EngineConfigs ==
    { VehicleConfig.drivetrain.engine,
      [maxRPM |-> 6000, idleRPM |-> 800, peakTorque |-> 30, peakRPM |-> 3000,
       inertia |-> 200],
      [maxRPM |-> 9000, idleRPM |-> 1200, peakTorque |-> 450, peakRPM |-> 9000,
       inertia |-> 150] }

\* Engine speeds in rpm, below 0 and above every maxRPM among them
EngineRpms == {-2000, -1, 0, 1000, 3000, 4000, 6000, 6001, 7000, 7001, 9000, 9001, 12000}

EngineThrottles == {0, InU \div 2, InU}

InitEngine ==
    /\ \E config \in EngineConfigs :
          part = [kind |-> "Engine", engine |-> NewEngine(config), op |-> "new",
                  calls |-> 0]
    /\ sims = [r \in {1} |-> NewSim("Flat", GroundedHeight)]
    /\ globals = InitialGlobals
    /\ hist = [r \in {1} |-> NewHist]
    /\ last = [r \in {1} |-> NoCall]
    /\ snap = NoSnap
    /\ tire = NoTire

\* engine.rpm = targetEngineRPM, the wheel-coupled speed, never below idle
EngineCouple(rpm) ==
    /\ part.kind = "Engine" /\ part.calls < MaxEngineCalls
    /\ rpm >= part.engine.idleRPM
    /\ part' = [kind |-> "Engine", engine |-> [part.engine EXCEPT !.rpm = rpm],
                op |-> "couple", calls |-> part.calls + 1]
    /\ UNCHANGED <<sims, globals, hist, last, snap, tire>>

\* engine.getTorqueCurve(rpm)
EngineTorqueCurve(rpm) ==
    /\ part.kind = "Engine" /\ part.calls < MaxEngineCalls
    /\ part' = [kind |-> "Engine", engine |-> part.engine, op |-> "getTorqueCurve",
                calls |-> part.calls + 1,
                rpm |-> rpm, result |-> GetTorqueCurve(part.engine, rpm)]
    /\ UNCHANGED <<sims, globals, hist, last, snap, tire>>

\* engine.update(FIXED_TIMESTEP, throttle, 0)
EngineUpdateCall(throttle) ==
    /\ part.kind = "Engine" /\ part.calls < MaxEngineCalls
    /\ \E res \in {EngineUpdate(part.engine, FIXED_TIMESTEP, throttle, 0)} :
          part' = [kind |-> "Engine", engine |-> res.engine, op |-> "update",
                   calls |-> part.calls + 1,
                   rpm |-> part.engine.rpm, throttle |-> throttle,
                   result |-> res.torque]
    /\ UNCHANGED <<sims, globals, hist, last, snap, tire>>

NextEngine ==
    \/ \E rpm \in EngineRpms : EngineCouple(rpm)
    \/ \E rpm \in EngineRpms : EngineTorqueCurve(rpm)
    \/ \E throttle \in EngineThrottles : EngineUpdateCall(throttle)

SpecEngine == InitEngine /\ [][NextEngine]_vars

\* C27: getTorqueCurve(rpm) is 0 for rpm < 0 and for rpm > maxRPM and lies
\* in [50, max(50, peakTorque)] for rpm in [0, maxRPM]; an update on an
\* engine coupled to more than maxRPM returns the torque 0 at every throttle
C27_TorqueCurveRange ==
    /\ part.op = "getTorqueCurve" =>
          IF part.rpm < 0 \/ part.rpm > part.engine.maxRPM
          THEN part.result = 0
          ELSE /\ part.result >= 50 * TqU
               /\ part.result <= Max(50, part.engine.peakTorque) * TqU
    /\ part.op = "update" /\ part.rpm > part.engine.maxRPM => part.result = 0

\* an update at full throttle on an engine coupled to more than maxRPM: no
\* torque, and rpm back at maxRPM
C27_Witness ==
    /\ part.op = "update" /\ part.rpm > part.engine.maxRPM
    /\ part.throttle = InU /\ part.result = 0
    /\ part.engine.rpm = part.engine.maxRPM

\* getTorqueCurve at the peak returned the peak torque
C27_WitnessPeak ==
    /\ part.op = "getTorqueCurve" /\ part.rpm = part.engine.peakRPM
    /\ part.result = part.engine.peakTorque * TqU /\ part.result > 50 * TqU


(***************************************************************************)
(* The engine's clock (Spec)                                               *)
(***************************************************************************)
\* C28: initially and after every call, 0 <= accumulator < FIXED_TIMESTEP,
\* and the sum of min(dt, 0.25) over the steps since construction or the
\* last reset is currentTime + accumulator
C28_AccumulatorInvariant ==
    /\ sims[1].engine.accumulator >= 0
    /\ sims[1].engine.accumulator < FIXED_TIMESTEP
    /\ hist[1].sumClamped = sims[1].engine.currentTime + sims[1].engine.accumulator

\* a step of one second, counted as 0.25 s, on top of a remainder that a
\* step after a reset had left
C28_Witness ==
    /\ last[1].op = "step" /\ last[1].dt > MaxFrameTime
    /\ hist[1].resets > 0
    /\ sims[1].engine.accumulator > 0 /\ sims[1].engine.currentTime > 0
    /\ hist[1].sumDt > hist[1].sumClamped


(***************************************************************************)
(* The timestamp of a state object (Spec)                                  *)
(***************************************************************************)
\* C29: the timestamp of the state that getState() returns is the engine's
\* simulated time at the call, FIXED_TIMESTEP times the fixedUpdates
\* executed
C29_TimestampIsTime ==
    last[1].op = "getState" =>
        /\ snap.state.timestamp = sims[1].engine.currentTime
        /\ snap.state.timestamp = FIXED_TIMESTEP * hist[1].updates


(***************************************************************************)
(* One engine whose caller keeps the object it passed to applyInput() and  *)
(* writes to it afterwards (SpecAlias)                                     *)
(***************************************************************************)
\* input.throttle = ...; input.brake = ...; input.steering = ... on the
\* object the caller passed to the last applyInput(); applyInput is not
\* called again
CallerMutates(input) ==
    /\ hist[1].calls < MaxCalls
    /\ sims[1].engine.currentInput = Ref("callerInput")
    /\ sims[1].heap.callerInput # input
    /\ sims' = [sims EXCEPT ![1].heap.callerInput = input]
    /\ hist' = [hist EXCEPT ![1].calls = @ + 1]
    /\ last' = [last EXCEPT ![1] = [op |-> "mutate", before |-> sims[1]]]
    /\ UNCHANGED <<globals, snap, tire, part>>

NextAlias ==
    \/ \E dt \in SpeedTimes : Step(1, dt)
    \/ \E input \in Inputs : ApplyInput(1, input)
    \/ \E input \in Inputs : CallerMutates(input)

SpecAlias == Init /\ [][NextAlias]_vars

\* C30: the input a fixedUpdate passes to Vehicle.update is the value the
\* input object had when applyInput() was last called, whatever the caller
\* wrote to the object afterwards
C30_InputSlotIsolated ==
    \A n \in 1..Len(LastTicks) : LastTicks[n].inputs = hist[1].applied

=============================================================================
